---- MODULE Spec2Model ----
(***************************************************************************)
(* A model of the axiom-recorder pipeline substrate:                       *)
(*   - Priority, the packed 64-bit scheduling key                          *)
(*     (pipeline_processing/processing_context.rs)                         *)
(*   - BitDepthConverter::pull      (nodes_cpu/bitdepth_convert.rs)        *)
(*   - CinemaDngReader::pull        (nodes_io/reader_cinema_dng.rs)        *)
(*   - Calibrate::pull, Histogram::pull (nodes_gpu/*.rs)                   *)
(* Each component has its own variables, initial condition, next-state     *)
(* relation and specification; a specification leaves the variables of the *)
(* other components at their idle values.                                  *)
(***************************************************************************)
EXTENDS Integers, Sequences, FiniteSets, TLC

VARIABLES
    priority,         \* Priority: the u64 held by a caller (a Request's priority)
    priorityMadeBy,   \* the call that produced `priority`
    priorityResult,   \* the result of the last call that read `priority`
    cvUpstream,       \* BitDepthConverter: what self.input.pull(request) resolves to
    cvPc,             \* BitDepthConverter::pull: "start", "convert", "done", "panicked"
    cvFrame,          \* the frame ensure_cpu_buffer_frame returned
    cvNewBuffer,      \* new_buffer: a byte per cell, Uninit where nothing was written
    cvLocals,         \* the loop's position and rest_bits, rest_value, pos
    cvReturn,         \* what pull returned
    gpuNode,          \* the GPU node pulled: "Calibrate" or "Histogram"
    gpuUpstream,      \* what self.input.pull(request) resolves to
    gpuPc,            \* where the pull is
    gpuFrame,         \* the device frame ensure_gpu_buffer_frame returned
    gpuSinkLen,       \* the length of sink_buffer, 0 before it is allocated
    gpuDispatch,      \* the workgroup counts recorded by dispatch
    gpuReturn,        \* what pull returned
    rdParams,         \* CinemaDngReader: the parameters and the files on disk
    rdState,          \* "new", "constructed" or "failed" (from_parameters)
    rdCache,          \* self.cache: a slot per file, None or Some(payload)
    rdPull,           \* the pull each caller is in
    rdOpened,         \* how many times each file was opened
    rdStarted,        \* how many pulls were started
    rdResult,         \* what from_parameters returned
    rdReturned,       \* per file, the payloads that completed pulls have returned
    rdCaps,           \* the first and the last value get_caps returned
    rdCacheLock,      \* the pull that holds the guard of self.cache, or 0
    rsPayload,        \* ensure_cpu_buffer_frame: the payload it is called with
    rsCall,           \* 1 for the first call, 2 for the call on the first result
    rsPc,             \* where the call is
    rsBuffer,         \* to_cpu_buffer_frame: the new host buffer
    rsGpu,            \* the copy command on the GPU: its state and the bytes copied
    rsTransfers,      \* how many copy commands were handed to the queue
    rsResult,         \* what ensure_cpu_buffer_frame returned
    rsFirst,          \* the result of the first call and the transfers it made
    rxWorkers,        \* PrioritizedReactor: per worker thread, the task it runs or 0
    rxTasks,          \* per task: its state, its priority, how often it suspended
    rxStarted,        \* the tasks in the order in which they were first started
    rxCompleted,      \* the tasks in the order in which they completed
    dsBlocking,       \* Display: self.blocking
    dsChannel,        \* the messages queued in the sync_channel, oldest first
    dsRender,         \* the render thread: its state and the frame it shows
    dsProcess,        \* the process call each producer is in
    dsReturned,       \* what the last process call returned, and whether it enqueued
    dsLock,           \* the producer that holds the mutex around tx, or 0
    dsFrames,         \* how many frames were handed to process so far
    dsDrop,           \* where Drop for Display is
    dgNode,           \* the GPU node whose pull records the dispatch
    dgWidth,          \* frame.interpretation.width as u32, as two 16-bit halves
    dgHeight,         \* frame.interpretation.height as u32, as two 16-bit halves
    dgOverflowChecks, \* whether the build checks integer overflow (debug profile)
    dgDispatch        \* the dispatch statement: "pending", "recorded", "panicked"

priorityVars == <<priority, priorityMadeBy, priorityResult>>

convertVars == <<cvUpstream, cvPc, cvFrame, cvNewBuffer, cvLocals, cvReturn>>

gpuVars == <<gpuNode, gpuUpstream, gpuPc, gpuFrame, gpuSinkLen, gpuDispatch, gpuReturn>>

readerVars == <<rdParams, rdState, rdCache, rdPull, rdOpened, rdStarted,
                rdResult, rdReturned, rdCaps, rdCacheLock>>

residencyVars == <<rsPayload, rsCall, rsPc, rsBuffer, rsGpu, rsTransfers, rsResult, rsFirst>>

reactorVars == <<rxWorkers, rxTasks, rxStarted, rxCompleted>>

displayVars == <<dsBlocking, dsChannel, dsRender, dsProcess, dsReturned, dsLock,
                 dsFrames, dsDrop>>

dispatchVars == <<dgNode, dgWidth, dgHeight, dgOverflowChecks, dgDispatch>>

vars == <<priorityVars, convertVars, gpuVars, readerVars, residencyVars, reactorVars, displayVars, dispatchVars>>

\* what each component's actions leave alone
notPriorityVars == <<convertVars, gpuVars, readerVars, residencyVars, reactorVars, displayVars, dispatchVars>>

notConvertVars == <<priorityVars, gpuVars, readerVars, residencyVars, reactorVars, displayVars, dispatchVars>>

notGpuVars == <<priorityVars, convertVars, readerVars, residencyVars, reactorVars, displayVars, dispatchVars>>

notReaderVars == <<priorityVars, convertVars, gpuVars, residencyVars, reactorVars, displayVars, dispatchVars>>

notResidencyVars == <<priorityVars, convertVars, gpuVars, readerVars, reactorVars, displayVars, dispatchVars>>

notReactorVars == <<priorityVars, convertVars, gpuVars, readerVars, residencyVars, displayVars, dispatchVars>>

notDisplayVars == <<priorityVars, convertVars, gpuVars, readerVars, residencyVars, reactorVars, dispatchVars>>

notDispatchVars == <<priorityVars, convertVars, gpuVars, readerVars, residencyVars, reactorVars, displayVars>>

\* the components a specification does not run stay as constructed
PriorityIdle ==
    /\ priority = {}
    /\ priorityMadeBy = [op |-> "default"]
    /\ priorityResult = [op |-> "none"]

ConvertIdle ==
    /\ cvUpstream = [ok |-> FALSE]
    /\ cvPc = "idle"
    /\ cvFrame = [handle |-> "none"]
    /\ cvNewBuffer = <<>>
    /\ cvLocals = [iter |-> 0, rest_bits |-> 0, rest_value |-> 0, pos |-> 0]
    /\ cvReturn = [kind |-> "pending"]

GpuIdle ==
    /\ gpuNode = "none"
    /\ gpuUpstream = [ok |-> FALSE]
    /\ gpuPc = "idle"
    /\ gpuFrame = [handle |-> "none"]
    /\ gpuSinkLen = 0
    /\ gpuDispatch = <<>>
    /\ gpuReturn = [kind |-> "pending"]

ReaderIdle ==
    /\ rdParams = [files |-> 0]
    /\ rdState = "idle"
    /\ rdCache = <<>>
    /\ rdPull = <<>>
    /\ rdOpened = <<>>
    /\ rdStarted = 0
    /\ rdResult = [kind |-> "pending"]
    /\ rdReturned = <<>>
    /\ rdCaps = [called |-> FALSE]
    /\ rdCacheLock = 0

ResidencyIdle ==
    /\ rsPayload = [handle |-> "none"]
    /\ rsCall = 0
    /\ rsPc = "idle"
    /\ rsBuffer = <<>>
    /\ rsGpu = [state |-> "idle", copied |-> 0]
    /\ rsTransfers = 0
    /\ rsResult = [kind |-> "pending"]
    /\ rsFirst = [kind |-> "pending"]

ReactorIdle ==
    /\ rxWorkers = <<>>
    /\ rxTasks = <<>>
    /\ rxStarted = <<>>
    /\ rxCompleted = <<>>

DisplayIdle ==
    /\ dsBlocking = FALSE
    /\ dsChannel = <<>>
    /\ dsRender = [state |-> "idle"]
    /\ dsProcess = <<>>
    /\ dsReturned = [result |-> [kind |-> "pending"]]
    /\ dsLock = 0
    /\ dsFrames = 0
    /\ dsDrop = "idle"

DispatchIdle ==
    /\ dgNode = "none"
    /\ dgWidth = [hi |-> 0, lo |-> 0]
    /\ dgHeight = [hi |-> 0, lo |-> 0]
    /\ dgOverflowChecks = FALSE
    /\ dgDispatch = [kind |-> "idle"]

(***************************************************************************)
(* 64-bit unsigned integers.  A u64 is the set of the positions of its set  *)
(* bits (bit 0 is the least significant), so the width is exactly 64 and    *)
(* the bitwise operators of the source are set operations.                  *)
(***************************************************************************)
U64Bits == 0..63

U64FromU8(b) == {i \in 0..7 : (b \div (2^i)) % 2 = 1}

U64ToU8(x) == LET v[i \in 0..8] == IF i = 8 THEN 0
                                     ELSE (IF i \in x THEN 2^i ELSE 0) + v[i + 1]
              IN  v[0]

\* x << k on u64: bits shifted past bit 63 are lost
U64Shl(x, k) == {i + k : i \in {j \in x : j + k <= 63}}

\* x >> k on u64
U64Shr(x, k) == {i - k : i \in {j \in x : j >= k}}

U64And(x, y) == x \cap y

U64Or(x, y) == x \cup y

U64Not(x) == U64Bits \ x

\* x < y on u64: the most significant bit in which they differ is set in y
U64Lt(x, y) == \E i \in y \ x : \A j \in (i + 1)..63 : (j \in x) <=> (j \in y)

(***************************************************************************)
(* Priority (processing_context.rs:46-70)                                  *)
(***************************************************************************)
\* const MASK: u64 = 0x0fff_ffff_ffff_ffff  -- fifteen f digits: bits 0..59
Priority_MASK == 0..59

\* #[derive(Default)] on Priority(u64)
Priority_default == {}

\* a slip of the shift width: the output priority lands on bits 48..55
Priority_new_shift48(output_priority, frame_number) ==
    U64Or(U64Shl(U64FromU8(output_priority), 48), U64And(frame_number, Priority_MASK))

Priority_new(output_priority, frame_number) ==
    U64Or(U64Shl(U64FromU8(output_priority), 56), U64And(frame_number, Priority_MASK))

Priority_for_frame(self, frame_number) ==
    U64Or(U64And(self, U64Not(Priority_MASK)), U64And(frame_number, Priority_MASK))

Priority_get_frame(self) == U64And(self, Priority_MASK)

\* the derived order turned around
Priority_lt_reversed(a, b) == U64Lt(b, a)

\* #[derive(Ord, PartialOrd)] on Priority(u64): the order of the u64
Priority_lt(a, b) == U64Lt(a, b)

\* Display for Priority: output_priority = self.0 >> 56
Priority_output_priority(self) == U64ToU8(U64Shr(self, 56))

\* the output priorities and frame numbers the calls are made with
OutputPriorities == {0, 1, 16, 255}

FrameNumbers ==
    { {}, {0, 2}, {2, 5, 6},           \* 0, 5, 100
      {48}, 0..55,                     \* 2^48, 2^56 - 1
      {56}, 0..63 }                    \* 2^56, 2^64 - 1

\* n < 2^56
FitsU56(n) == n \cap (56..63) = {}

InitPriority ==
    /\ priority = Priority_default
    /\ priorityMadeBy = [op |-> "default"]
    /\ priorityResult = [op |-> "none"]
    /\ ConvertIdle
    /\ GpuIdle
    /\ ReaderIdle
    /\ ResidencyIdle
    /\ ReactorIdle
    /\ DisplayIdle
    /\ DispatchIdle

\* let p = Priority::new(o, n)
PriorityNew ==
    \E o \in OutputPriorities, n \in FrameNumbers :
        /\ priority' = Priority_new(o, n)
        /\ priorityMadeBy' = [op |-> "new", output_priority |-> o, frame_number |-> n]
        /\ priorityResult' = [op |-> "none"]
        /\ UNCHANGED notPriorityVars

\* let p = p.for_frame(n)
PriorityForFrame ==
    \E n \in FrameNumbers :
        /\ priority' = Priority_for_frame(priority, n)
        /\ priorityMadeBy' = [op |-> "for_frame", self |-> priority, frame_number |-> n]
        /\ priorityResult' = [op |-> "none"]
        /\ UNCHANGED notPriorityVars

\* p.get_frame()
PriorityGetFrame ==
    /\ priorityResult' = [op |-> "get_frame", result |-> Priority_get_frame(priority)]
    /\ UNCHANGED <<priority, priorityMadeBy, notPriorityVars>>

\* p < Priority::new(o, n)
PriorityCompare ==
    \E o \in OutputPriorities, n \in FrameNumbers :
        /\ priorityResult' = [op |-> "lt", output_priority |-> o, frame_number |-> n,
                              result |-> Priority_lt(priority, Priority_new(o, n))]
        /\ UNCHANGED <<priority, priorityMadeBy, notPriorityVars>>

NextPriority ==
    \/ PriorityNew
    \/ PriorityForFrame
    \/ PriorityGetFrame
    \/ PriorityCompare

SpecPriority == InitPriority /\ [][NextPriority]_vars

(***************************************************************************)
(* Claims about Priority                                                   *)
(***************************************************************************)
\* C1: for every Priority p and every frame number n < 2^56,
\* p.for_frame(n).get_frame() = n and the output-priority byte (bits 56..63)
\* of p.for_frame(n) is that of p.
C1_ForFrameKeepsOutputPriority ==
    (priorityMadeBy.op = "for_frame" /\ FitsU56(priorityMadeBy.frame_number)) =>
        /\ Priority_output_priority(priority) =
               Priority_output_priority(priorityMadeBy.self)
        /\ priorityResult.op = "get_frame" =>
               priorityResult.result = priorityMadeBy.frame_number

\* C2: for every output priority o and every frame number n >= 2^56,
\* Priority::new(o, n) and Priority::new(o, 0).for_frame(n) keep the upper 8
\* bits equal to o: only the frame-number field wraps.
C2_WrapKeepsUpperByte ==
    /\ (priorityMadeBy.op = "new" /\ ~FitsU56(priorityMadeBy.frame_number)) =>
            Priority_output_priority(priority) = priorityMadeBy.output_priority
    /\ (priorityMadeBy.op = "for_frame" /\ ~FitsU56(priorityMadeBy.frame_number)) =>
            \A o \in OutputPriorities :
                priorityMadeBy.self = Priority_new(o, {}) =>
                    Priority_output_priority(priority) = o

\* C3: for every output priority o and every frame number n < 2^56,
\* Priority::new(o, n).get_frame() = n: the frame number read back never
\* contains bits of the output-priority byte.
C3_GetFrameOfNew ==
    (/\ priorityMadeBy.op = "new"
     /\ FitsU56(priorityMadeBy.frame_number)
     /\ priorityResult.op = "get_frame") =>
        priorityResult.result = priorityMadeBy.frame_number

\* C4: the order of priorities is lexicographic on (output priority, frame
\* number): for frame numbers f1, f2 < 2^56, Priority::new(a, f1) <
\* Priority::new(b, f2) iff a < b, or a = b and f1 < f2.
C4_OrderIsLexicographic ==
    (/\ priorityMadeBy.op = "new"
     /\ priorityResult.op = "lt"
     /\ FitsU56(priorityMadeBy.frame_number)
     /\ FitsU56(priorityResult.frame_number)) =>
        (priorityResult.result <=>
            \/ priorityMadeBy.output_priority < priorityResult.output_priority
            \/ /\ priorityMadeBy.output_priority = priorityResult.output_priority
               /\ U64Lt(priorityMadeBy.frame_number, priorityResult.frame_number))

\* a comparison the output priority decides against the frame numbers:
\* a < b while f1 > f2, and the result is "less"
C4_Witness ==
    /\ priorityMadeBy.op = "new"
    /\ priorityResult.op = "lt"
    /\ FitsU56(priorityMadeBy.frame_number)
    /\ FitsU56(priorityResult.frame_number)
    /\ priorityMadeBy.output_priority < priorityResult.output_priority
    /\ U64Lt(priorityResult.frame_number, priorityMadeBy.frame_number)
    /\ priorityMadeBy.frame_number = 0..55
    /\ priorityResult.result

(***************************************************************************)
(* Frames and payloads                                                     *)
(*   An interpretation is [width, height, sample_interpretation]; a sample *)
(*   interpretation is [kind, bits]: UInt(bits), FP16 or FP32.  Frames are *)
(*   single-sample-per-pixel (Bayer, as CinemaDngReader produces them).    *)
(*   A payload is [handle, type, interpretation, storage]: the handle is   *)
(*   the identity of the shared allocation (Arc), the storage a sequence   *)
(*   of bytes.                                                             *)
(***************************************************************************)
UInt(bits) == [kind |-> "UInt", bits |-> bits]

FP16 == [kind |-> "FP16", bits |-> 16]

FP32 == [kind |-> "FP32", bits |-> 32]

Interpretation(w, h, s) == [width |-> w, height |-> h, sample_interpretation |-> s]

\* FrameInterpretation::required_bytes (pipeline_processing/frame.rs)
required_bytes(interpretation) ==
    (interpretation.width * interpretation.height
        * interpretation.sample_interpretation.bits) \div 8

\* a cell of an uninitialised buffer that nothing was written to
Uninit == -1

\* ProcessingContext::get_uninit_cpu_buffer(len)
get_uninit_cpu_buffer(len) == [i \in 1..len |-> Uninit]

\* Payload::downcast::<T>() (pipeline_processing/payload.rs): it succeeds when
\* the stored type is T exactly, and gives the shared handle of the stored value
downcast(payload, type_name) ==
    IF payload.type = type_name THEN [ok |-> TRUE, value |-> payload]
    ELSE [ok |-> FALSE]

\* the handle of a newly allocated frame (Arc::new, line 226): it is no handle
\* that exists already, in particular not the handle of the frame copied
NewHandle(handle) ==
    IF handle = "upstream" THEN "transferred" ELSE "transferred again"

\* ProcessingContext::to_cpu_buffer_frame: a new host frame with the device
\* frame's interpretation and a buffer of its size that the copy command fills;
\* `ok` is whether the command buffer could be set up
to_cpu_buffer_frame(frame, ok) ==
    IF ok
    THEN [ok |-> TRUE,
          frame |-> [handle |-> NewHandle(frame.handle), type |-> "Frame<CpuBuffer>",
                     interpretation |-> frame.interpretation,
                     storage |-> [i \in 1..Len(frame.storage) |-> frame.storage[i]]]]
    ELSE [ok |-> FALSE, error |-> [kind |-> "transfer failed"]]

\* the error of lines 228-232 without the payload's type
WrongTypeError_unnamed(type_name) ==
    [ok |-> FALSE,
     error |-> [kind |-> "wrong type", wanted |-> "Frame<CpuBuffer>", actual |-> "?"]]

\* lines 228-232: "wanted a frame with type {}, but the payload was of type {}"
WrongTypeError(type_name) ==
    [ok |-> FALSE,
     error |-> [kind |-> "wrong type", wanted |-> "Frame<CpuBuffer>", actual |-> type_name]]

\* ensure_cpu_buffer_frame that copies a host frame too
ensure_cpu_buffer_frame_always_transfers(payload, transfer_ok) ==
    IF payload.type \in {"Frame<CpuBuffer>", "Frame<GpuBuffer>"}
    THEN to_cpu_buffer_frame(payload, TRUE)
    ELSE WrongTypeError(payload.type)

\* ProcessingContext::ensure_cpu_buffer_frame(payload)
ensure_cpu_buffer_frame(payload, transfer_ok) ==
    IF downcast(payload, "Frame<CpuBuffer>").ok
    THEN [ok |-> TRUE, frame |-> downcast(payload, "Frame<CpuBuffer>").value]
    ELSE IF downcast(payload, "Frame<GpuBuffer>").ok
    THEN to_cpu_buffer_frame(downcast(payload, "Frame<GpuBuffer>").value, transfer_ok)
    ELSE WrongTypeError(payload.type)

(***************************************************************************)
(* Byte and word arithmetic of the conversion loops                        *)
(***************************************************************************)
RECURSIVE BitwiseOr(_, _)
\* a | b on unsigned integers
BitwiseOr(a, b) ==
    IF a = 0 THEN b
    ELSE IF b = 0 THEN a
    ELSE 2 * BitwiseOr(a \div 2, b \div 2) + (IF a % 2 = 1 \/ b % 2 = 1 THEN 1 ELSE 0)

RECURSIVE BitwiseAnd(_, _)
\* a & b on unsigned integers
BitwiseAnd(a, b) ==
    IF a = 0 \/ b = 0 THEN 0
    ELSE 2 * BitwiseAnd(a \div 2, b \div 2) + (IF a % 2 = 1 /\ b % 2 = 1 THEN 1 ELSE 0)

\* a << k on u8: the bits shifted past bit 7 are lost
U8Shl(a, k) == (a * 2^k) % 256

\* a >> k on u8
U8Shr(a, k) == a \div 2^k

\* u8::wrapping_shr(k): the shift amount is taken modulo 8
U8WrappingShr(a, k) == a \div 2^(k % 8)

\* u32::wrapping_shl(k): the shift amount is taken modulo 32
\* (exact while the result is below 2^31, which it is for every sample width
\* up to 16 bits: rest_value < 2^rest_bits and the result is below 2^bits;
\* TLC stops with an overflow error, not a wrong value, beyond that)
U32WrappingShl(a, k) == a * 2^(k % 32)

\* u32::wrapping_shr(k)
U32WrappingShr(a, k) == a \div 2^(k % 32)

\* x as u8
AsU8(x) == x % 256

(***************************************************************************)
(* BitDepthConverter::pull (bitdepth_convert.rs:37-97)                     *)
(***************************************************************************)
\* output[1] of the 12-bit path with the shift of input[1] forgotten
Convert12Second_noshift(in1, in2) == BitwiseOr(in1, U8Shr(in2, 4))

\* output[1] = (input[1] << 4) | (input[2] >> 4)
Convert12Second(in1, in2) == BitwiseOr(U8Shl(in1, 4), U8Shr(in2, 4))

\* the zip of chunks_exact(3) and chunks_exact_mut(2) ends with the shorter
Convert12Chunks(frame_storage, new_buffer) ==
    IF Len(frame_storage) \div 3 < Len(new_buffer) \div 2
    THEN Len(frame_storage) \div 3
    ELSE Len(new_buffer) \div 2

\* bits_more_than_bit_depth = (rest_bits as i32 + 8) - bits as i32
bits_more_than_bit_depth(rest_bits, bits) == (rest_bits + 8) - bits

\* the test of the generic path with > for >=
GenericEmits_strict(rest_bits, bits) == bits_more_than_bit_depth(rest_bits, bits) > 0

\* if bits_more_than_bit_depth >= 0: this byte completes a sample
GenericEmits(rest_bits, bits) == bits_more_than_bit_depth(rest_bits, bits) >= 0

\* new_n_bit_value = rest_value.wrapping_shl(bits - rest_bits)
\*                 | value.wrapping_shr(8 - bits_more_than_bit_depth) as u32
new_n_bit_value(rest_value, rest_bits, bits, value) ==
    BitwiseOr(U32WrappingShl(rest_value, bits - rest_bits),
              U8WrappingShr(value, 8 - bits_more_than_bit_depth(rest_bits, bits)))

\* the byte written: (if bits > 8 { v.wrapping_shr(bits - 8) } else { v }) as u8
GenericOutput(rest_value, rest_bits, bits, value) ==
    LET v == new_n_bit_value(rest_value, rest_bits, bits, value)
    IN  AsU8(IF bits > 8 THEN U32WrappingShr(v, bits - 8) ELSE v)

\* rest_value = (value & (2u32.pow(rest_bits) - 1) as u8) as u32
GenericRest(value, rest_bits) == BitwiseAnd(value, AsU8(2^rest_bits - 1))

\* if let SampleInterpretation::UInt(8) = ... { return Ok(input) }: copying
\* the frame into a payload of its own instead
IdentityResult_copy(input, frame) ==
    [handle |-> "converted", type |-> "Frame<CpuBuffer>",
     interpretation |-> frame.interpretation, storage |-> frame.storage]

\* return Ok(input)
IdentityResult(input, frame) == input

\* the byte values the inputs of varied content are made of
ByteValues == {60, 165}

\* the content of the inputs of fixed content: 0xA5 0x3C 0xA5 ...
PatternByte(i) == IF i % 2 = 1 THEN 165 ELSE 60

\* frames are MaxWidth samples wide at most
MaxWidth == 8

\* inputs of at most this many bytes take every content over ByteValues
MaxVariedBytes == 5

\* the byte sequences of length len the frames carry
StoragesOf(len) ==
    IF len <= MaxVariedBytes
    THEN [1..len -> ByteValues]
    ELSE {[i \in 1..len |-> PatternByte(i)]}

\* the sample interpretations of the upstream frames
SampleInterpretations == {UInt(b) : b \in 8..16} \cup {FP16, FP32}

\* host frames of every width and sample interpretation
CpuFrames ==
    UNION { { [handle |-> "upstream", type |-> "Frame<CpuBuffer>",
               interpretation |-> Interpretation(w, 1, s), storage |-> st] :
              st \in StoragesOf(required_bytes(Interpretation(w, 1, s))) } :
            w \in 1..MaxWidth, s \in SampleInterpretations }

\* two 12-bit samples in three bytes, the second and third byte of every value
Triplets12 ==
    { [handle |-> "upstream", type |-> "Frame<CpuBuffer>",
       interpretation |-> Interpretation(2, 1, UInt(12)), storage |-> <<165, in1, in2>>] :
      in1 \in 0..255, in2 \in 0..255 }

\* device frames
GpuFrames ==
    { [handle |-> "upstream", type |-> "Frame<GpuBuffer>",
       interpretation |-> Interpretation(w, 1, s),
       storage |-> [i \in 1..required_bytes(Interpretation(w, 1, s)) |-> PatternByte(i)]] :
      w \in {2, 4}, s \in {UInt(8), UInt(10), UInt(12)} }

\* what the upstream pull can resolve to
UpstreamResults ==
    {[ok |-> TRUE, payload |-> p] : p \in CpuFrames \cup Triplets12 \cup GpuFrames}
    \cup {[ok |-> TRUE, payload |-> [handle |-> "upstream", type |-> "other"]],
          [ok |-> FALSE]}

\* `self.input.pull(request).await?`: an Err of the upstream returns from pull
\* with that error, an Ok gives its payload to the statements that follow
Try_as_empty(upstream) ==
    IF upstream.ok
    THEN [returns |-> FALSE, value |-> upstream.payload]
    ELSE [returns |-> TRUE,
          result |-> [kind |-> "Ok", payload |-> [handle |-> "empty", type |-> "other"]]]

Try(upstream) ==
    IF upstream.ok
    THEN [returns |-> FALSE, value |-> upstream.payload]
    ELSE [returns |-> TRUE, result |-> [kind |-> "Err", error |-> "upstream"]]

InitConvert ==
    /\ cvUpstream \in UpstreamResults
    /\ cvPc = "start"
    /\ cvFrame = [handle |-> "none"]
    /\ cvNewBuffer = <<>>
    /\ cvLocals = [iter |-> 0, rest_bits |-> 0, rest_value |-> 0, pos |-> 0]
    /\ cvReturn = [kind |-> "pending"]
    /\ PriorityIdle
    /\ GpuIdle
    /\ ReaderIdle
    /\ ResidencyIdle
    /\ ReactorIdle
    /\ DisplayIdle
    /\ DispatchIdle

\* lines 38-48: the upstream pull, the residency coercion and the allocation
\* of new_buffer; an error of either of the first two is returned
CvPull ==
    /\ cvPc = "start"
    /\ \E transfer_ok \in BOOLEAN :
        LET input == Try(cvUpstream)
            ensured == ensure_cpu_buffer_frame(input.value, transfer_ok)
        IN  IF input.returns
            THEN /\ cvPc' = "done"
                 /\ cvReturn' = input.result
                 /\ UNCHANGED <<cvFrame, cvNewBuffer>>
            ELSE IF ~ensured.ok
            THEN /\ cvPc' = "done"
                 /\ cvReturn' = [kind |-> "Err",
                                 error |-> "Wrong input format for BitDepthConverter"]
                 /\ UNCHANGED <<cvFrame, cvNewBuffer>>
            ELSE /\ cvPc' = "convert"
                 /\ cvFrame' = ensured.frame
                 /\ cvNewBuffer' = get_uninit_cpu_buffer(required_bytes(
                        [ensured.frame.interpretation EXCEPT
                            !.sample_interpretation = UInt(8)]))
                 /\ UNCHANGED cvReturn
    /\ UNCHANGED <<cvUpstream, cvLocals, notConvertVars>>

\* lines 50-51: UInt(8) input is returned as it came
CvReturnInput ==
    /\ cvPc = "convert"
    /\ cvFrame.interpretation.sample_interpretation = UInt(8)
    /\ cvPc' = "done"
    /\ cvReturn' = [kind |-> "Ok", payload |-> IdentityResult(cvUpstream.payload, cvFrame)]
    /\ UNCHANGED <<cvUpstream, cvFrame, cvNewBuffer, cvLocals, notConvertVars>>

\* lines 52-62: one iteration of the 12-bit loop: a triplet in, a pair out
CvChunk12 ==
    /\ cvPc = "convert"
    /\ cvFrame.interpretation.sample_interpretation = UInt(12)
    /\ cvLocals.iter < Convert12Chunks(cvFrame.storage, cvNewBuffer)
    /\ LET k == cvLocals.iter
           input == [j \in 0..2 |-> cvFrame.storage[3 * k + j + 1]]
       IN  /\ cvNewBuffer' = [cvNewBuffer EXCEPT
                                ![2 * k + 1] = input[0],
                                ![2 * k + 2] = Convert12Second(input[1], input[2])]
           /\ cvLocals' = [cvLocals EXCEPT !.iter = k + 1]
    /\ UNCHANGED <<cvUpstream, cvPc, cvFrame, cvReturn, notConvertVars>>

\* lines 63-91: one iteration of the generic loop, over one input byte
CvGenericByte ==
    /\ cvPc = "convert"
    /\ cvFrame.interpretation.sample_interpretation.kind = "UInt"
    /\ cvFrame.interpretation.sample_interpretation.bits \notin {8, 12}
    /\ cvLocals.iter < Len(cvFrame.storage)
    /\ LET bits == cvFrame.interpretation.sample_interpretation.bits
           value == cvFrame.storage[cvLocals.iter + 1]
           rest_bits == cvLocals.rest_bits
           rest_value == cvLocals.rest_value
           pos == cvLocals.pos
       IN  IF GenericEmits(rest_bits, bits)
           THEN IF pos >= Len(cvNewBuffer)
                THEN \* new_buffer[pos]: index out of bounds
                     /\ cvPc' = "panicked"
                     /\ UNCHANGED <<cvNewBuffer, cvLocals>>
                ELSE /\ cvNewBuffer' = [cvNewBuffer EXCEPT ![pos + 1] =
                            GenericOutput(rest_value, rest_bits, bits, value)]
                     /\ cvLocals' = [iter |-> cvLocals.iter + 1,
                                     rest_bits |-> bits_more_than_bit_depth(rest_bits, bits),
                                     rest_value |-> GenericRest(value,
                                         bits_more_than_bit_depth(rest_bits, bits)),
                                     pos |-> pos + 1]
                     /\ UNCHANGED cvPc
           ELSE /\ cvLocals' = [iter |-> cvLocals.iter + 1,
                                rest_bits |-> rest_bits + 8,
                                rest_value |-> BitwiseOr(rest_value * 256, value),
                                pos |-> pos]
                /\ UNCHANGED <<cvNewBuffer, cvPc>>
    /\ UNCHANGED <<cvUpstream, cvFrame, cvReturn, notConvertVars>>

\* whether the branch taken for the frame's sample interpretation has run
CvLoopDone ==
    LET s == cvFrame.interpretation.sample_interpretation
    IN  IF s = UInt(12) THEN cvLocals.iter = Convert12Chunks(cvFrame.storage, cvNewBuffer)
        ELSE IF s.kind = "UInt" THEN cvLocals.iter = Len(cvFrame.storage)
        ELSE TRUE

\* lines 94-96: new_buffer is returned as a UInt(8) frame
CvFinish ==
    /\ cvPc = "convert"
    /\ cvFrame.interpretation.sample_interpretation # UInt(8)
    /\ CvLoopDone
    /\ cvPc' = "done"
    /\ cvReturn' = [kind |-> "Ok",
                    payload |-> [handle |-> "converted", type |-> "Frame<CpuBuffer>",
                                 interpretation |-> [cvFrame.interpretation EXCEPT
                                                        !.sample_interpretation = UInt(8)],
                                 storage |-> cvNewBuffer]]
    /\ UNCHANGED <<cvUpstream, cvFrame, cvNewBuffer, cvLocals, notConvertVars>>

NextConvert ==
    \/ CvPull
    \/ CvReturnInput
    \/ CvChunk12
    \/ CvGenericByte
    \/ CvFinish

SpecConvert == InitConvert /\ [][NextConvert]_vars

(***************************************************************************)
(* Claims about BitDepthConverter                                          *)
(***************************************************************************)
\* bit k of a byte stream read MSB-first (bit 0 is the top bit of byte 1)
StreamBit(storage, k) == (storage[(k \div 8) + 1] \div 2^(7 - (k % 8))) % 2

\* the top 8 bits of sample i of a stream of samples packed MSB-first at
\* `bits` bits each
TopEightBits(storage, bits, i) ==
    LET v[j \in 0..8] == IF j = 8 THEN 0
                         ELSE StreamBit(storage, i * bits + j) * 2^(7 - j) + v[j + 1]
    IN  v[0]

\* the number of whole samples a byte stream holds
SamplesHeld(storage, bits) == (8 * Len(storage)) \div bits

\* pull has returned a converted frame made from a UInt frame
CvConverted ==
    /\ cvPc = "done"
    /\ cvReturn.kind = "Ok"
    /\ cvFrame.interpretation.sample_interpretation.kind = "UInt"
    /\ cvFrame.interpretation.sample_interpretation.bits # 8

\* the frame holds whole samples: N * b is a multiple of 8
CvWholeSamples ==
    (cvFrame.interpretation.width * cvFrame.interpretation.height
        * cvFrame.interpretation.sample_interpretation.bits) % 8 = 0

\* C6: for every bit depth b in 9..16 other than 12 and every input holding N
\* samples packed MSB-first at b bits, the generic path writes out[i] = the
\* top 8 bits of sample i for every i < N.
C6_GenericTopEightBits ==
    (/\ CvConverted
     /\ cvFrame.interpretation.sample_interpretation.bits # 12
     /\ CvWholeSamples) =>
        LET bits == cvFrame.interpretation.sample_interpretation.bits
        IN  \A i \in 0..(SamplesHeld(cvFrame.storage, bits) - 1) :
                cvReturn.payload.storage[i + 1] = TopEightBits(cvFrame.storage, bits, i)

\* C7: for 12-bit input every input triplet (in0, in1, in2) gives the output
\* pair (in0, (in1 << 4) | (in2 >> 4) truncated to 8 bits), and the pair is
\* the top 8 bits of the two MSB-first 12-bit samples packed in the triplet.
C7_TwelveBitPairs ==
    (CvConverted /\ cvFrame.interpretation.sample_interpretation.bits = 12) =>
        \A k \in 0..((Len(cvFrame.storage) \div 3) - 1) :
            LET in0 == cvFrame.storage[3 * k + 1]
                in1 == cvFrame.storage[3 * k + 2]
                in2 == cvFrame.storage[3 * k + 3]
                out0 == cvReturn.payload.storage[2 * k + 1]
                out1 == cvReturn.payload.storage[2 * k + 2]
            IN  /\ out0 = in0
                /\ out1 = BitwiseOr(in1 * 16, in2 \div 16) % 256
                /\ out0 = TopEightBits(cvFrame.storage, 12, 2 * k)
                /\ out1 = TopEightBits(cvFrame.storage, 12, 2 * k + 1)

\* the triplet A5 F3 5A has been converted to A5 35: the high nibble of in1
\* is shifted out of the byte
C7_Witness ==
    /\ CvConverted
    /\ cvFrame.interpretation.sample_interpretation.bits = 12
    /\ cvFrame.storage = <<165, 243, 90>>
    /\ cvReturn.payload.storage = <<165, 53>>

\* C8: the unpack is length-exact: for every b in 9..16 and every input of
\* N*b/8 bytes holding N samples, the number of output bytes written is N,
\* which is the length of the output buffer, and the write position never
\* exceeds the length of the output buffer.
C8_LengthExact ==
    /\ cvPc = "panicked" => ~CvWholeSamples
    /\ (/\ cvPc = "convert"
        /\ cvFrame.interpretation.sample_interpretation.kind = "UInt"
        /\ CvWholeSamples) =>
            cvLocals.pos <= Len(cvNewBuffer)
    /\ (CvConverted /\ CvWholeSamples) =>
        LET n == cvFrame.interpretation.width * cvFrame.interpretation.height
            out == cvReturn.payload.storage
        IN  /\ Len(out) = n
            /\ \A i \in 1..n : out[i] # Uninit
            /\ IF cvFrame.interpretation.sample_interpretation.bits = 12
               THEN 2 * cvLocals.iter = n
               ELSE cvLocals.pos = n

\* eight 15-bit samples in fifteen bytes have been unpacked to eight bytes
C8_Witness ==
    /\ CvConverted
    /\ cvFrame.interpretation.sample_interpretation.bits = 15
    /\ Len(cvFrame.storage) = 15
    /\ cvLocals.pos = 8
    /\ Len(cvReturn.payload.storage) = 8

\* the upstream pull gave a frame of UInt(8) samples
CvUpstreamUInt8 ==
    /\ cvUpstream.ok
    /\ cvUpstream.payload.type \in {"Frame<CpuBuffer>", "Frame<GpuBuffer>"}
    /\ cvUpstream.payload.interpretation.sample_interpretation = UInt(8)

\* C9: when the upstream frame's sample interpretation is UInt(8), pull
\* returns the very payload handle it received from upstream: every Ok result
\* is that payload, and a host frame always gives an Ok result.
C9_ReturnsInputHandle ==
    (cvPc = "done" /\ CvUpstreamUInt8) =>
        /\ cvReturn.kind = "Ok" => cvReturn.payload = cvUpstream.payload
        /\ cvUpstream.payload.type = "Frame<CpuBuffer>" => cvReturn.kind = "Ok"

\* a device frame of UInt(8) samples came from upstream and went out as it
\* came, although the samples were read from the transferred host copy
C9_Witness ==
    /\ cvPc = "done"
    /\ CvUpstreamUInt8
    /\ cvUpstream.payload.type = "Frame<GpuBuffer>"
    /\ cvFrame.handle = "transferred"
    /\ cvReturn.kind = "Ok"
    /\ cvReturn.payload.handle = "upstream"

\* C33: every byte of the storage of a frame returned by
\* BitDepthConverter::pull has been written before the frame is returned: for
\* no sample interpretation of the input (FP16 and FP32 included) does the
\* returned UInt(8) frame hold a byte that is still uninitialised.  It is
\* stated for the input frames that hold whole samples.
C33_ReturnedStorageInitialised ==
    (cvPc = "done" /\ cvReturn.kind = "Ok" /\ CvWholeSamples) =>
        \A i \in 1..Len(cvReturn.payload.storage) : cvReturn.payload.storage[i] # Uninit

(***************************************************************************)
(* Calibrate::pull (calibrate.rs:115-183), Histogram::pull                 *)
(* (histogram.rs:70-145)                                                   *)
(*   A device buffer is modelled by its length: its content is written by  *)
(*   the compute shader.  The payloads of this component are               *)
(*   [handle, type, interpretation, storage_len].                          *)
(***************************************************************************)
\* gpu_util::ensure_gpu_buffer_frame(payload, queue): a device frame is
\* returned as it is, a host frame is uploaded to a device frame of the same
\* interpretation and length, any other payload is an error
ensure_gpu_buffer_frame(payload) ==
    IF payload.type = "Frame<GpuBuffer>" THEN [ok |-> TRUE, frame |-> payload]
    ELSE IF payload.type = "Frame<CpuBuffer>"
    THEN [ok |-> TRUE,
          frame |-> [handle |-> "uploaded", type |-> "Frame<GpuBuffer>",
                     interpretation |-> payload.interpretation,
                     storage_len |-> payload.storage_len]]
    ELSE [ok |-> FALSE]

\* histogram.rs:79: (1 << 8) * 4 bytes, "actually uint"
HistogramSinkLen == 1024

\* histogram.rs:138
HistogramWidth == 4096

\* histogram.rs:139
HistogramHeight == 1

\* the length sink_buffer is allocated with
SinkLen(node, frame) ==
    IF node = "Calibrate" THEN required_bytes(frame.interpretation) ELSE HistogramSinkLen

\* the interpretation of the frame pull returns
OutputInterpretation(node, frame) ==
    IF node = "Calibrate" THEN frame.interpretation
    ELSE [frame.interpretation EXCEPT !.width = HistogramWidth,
                                      !.height = HistogramHeight,
                                      !.sample_interpretation = FP32]

\* a u32 is kept as its two 16-bit halves, the value being hi * 2^16 + lo
U32(hi, lo) == [hi |-> hi, lo |-> lo]

\* `x as u32` for a u64 x: the low 32 bits (x is below 2^31 here)
AsU32(x) == U32((x \div 65536) % 65536, x % 65536)

\* a + k in u32, for k below 2^16: the sum modulo 2^32, and whether the
\* mathematical sum is past u32::MAX
U32Add(a, k) ==
    LET lo == a.lo + k
        hi == a.hi + (lo \div 65536)
    IN  [value |-> U32(hi % 65536, lo % 65536), overflowed |-> hi >= 65536]

\* a / d in u32, for d a power of two between 2 and 2^16
U32Div(a, d) == a.hi * (65536 \div d) + (a.lo \div d)

\* (x + (tile - 1)) / tile in u32: an addition that overflows panics in a
\* build with overflow checks and wraps around in a build without them
GroupCount(x, tile, overflow_checks) ==
    LET sum == U32Add(x, tile - 1)
    IN  [panicked |-> sum.overflowed /\ overflow_checks,
         count |-> U32Div(sum.value, tile)]

\* dispatch([(width as u32 + 15) / 16, (height as u32 + 31) / 32, 1])
DispatchGroups(width, height, overflow_checks) ==
    LET x == GroupCount(width, 16, overflow_checks)
        y == GroupCount(height, 32, overflow_checks)
    IN  IF x.panicked \/ y.panicked
        THEN [kind |-> "panicked"]
        ELSE [kind |-> "recorded", groups |-> <<x.count, y.count, 1>>]

\* the frames the upstream of a GPU node gives
GpuInputFrames ==
    { [handle |-> "upstream", type |-> t, interpretation |-> Interpretation(w, h, smp),
       storage_len |-> required_bytes(Interpretation(w, h, smp))] :
      t \in {"Frame<CpuBuffer>", "Frame<GpuBuffer>"},
      w \in {1, 16, 17}, h \in {1, 32, 33}, smp \in {UInt(8), UInt(16), FP32} }

GpuUpstreamResults ==
    {[ok |-> TRUE, payload |-> f] : f \in GpuInputFrames}
    \cup {[ok |-> TRUE, payload |-> [handle |-> "upstream", type |-> "other"]],
          [ok |-> FALSE]}

InitGpu ==
    /\ gpuNode \in {"Calibrate", "Histogram"}
    /\ gpuUpstream \in GpuUpstreamResults
    /\ gpuPc = "start"
    /\ gpuFrame = [handle |-> "none"]
    /\ gpuSinkLen = 0
    /\ gpuDispatch = <<>>
    /\ gpuReturn = [kind |-> "pending"]
    /\ PriorityIdle
    /\ ConvertIdle
    /\ ReaderIdle
    /\ ResidencyIdle
    /\ ReactorIdle
    /\ DisplayIdle
    /\ DispatchIdle

\* self.input.pull(request).await? and ensure_gpu_buffer_frame(..).context(..)?
GpuPullInput ==
    /\ gpuPc = "start"
    /\ LET input == Try(gpuUpstream)
           ensured == ensure_gpu_buffer_frame(input.value)
       IN  IF input.returns
           THEN /\ gpuPc' = "done"
                /\ gpuReturn' = input.result
                /\ UNCHANGED gpuFrame
           ELSE IF ~ensured.ok
           THEN /\ gpuPc' = "done"
                /\ gpuReturn' = [kind |-> "Err", error |-> "Wrong input format"]
                /\ UNCHANGED gpuFrame
           ELSE /\ gpuPc' = "allocate"
                /\ gpuFrame' = ensured.frame
                /\ UNCHANGED gpuReturn
    /\ UNCHANGED <<gpuNode, gpuUpstream, gpuSinkLen, gpuDispatch, notGpuVars>>

\* DeviceLocalBuffer::<[u8]>::array(device, len, usage, families)?
GpuAllocate ==
    /\ gpuPc = "allocate"
    /\ \E ok \in BOOLEAN :
        IF ok
        THEN /\ gpuSinkLen' = SinkLen(gpuNode, gpuFrame)
             /\ gpuPc' = "descriptor_set"
             /\ UNCHANGED gpuReturn
        ELSE /\ gpuPc' = "done"
             /\ gpuReturn' = [kind |-> "Err", error |-> "allocation"]
             /\ UNCHANGED gpuSinkLen
    /\ UNCHANGED <<gpuNode, gpuUpstream, gpuFrame, gpuDispatch, notGpuVars>>

\* PersistentDescriptorSet::new(..).unwrap() and
\* AutoCommandBufferBuilder::primary(..).unwrap(): a failure panics
GpuDescriptorSet ==
    /\ gpuPc = "descriptor_set"
    /\ \E ok \in BOOLEAN :
        gpuPc' = IF ok THEN "record" ELSE "panicked"
    /\ UNCHANGED <<gpuNode, gpuUpstream, gpuFrame, gpuSinkLen, gpuDispatch, gpuReturn,
                   notGpuVars>>

\* builder.[fill_buffer(..)?]. .. .dispatch([..])? and builder.build()?
GpuRecord ==
    /\ gpuPc = "record"
    /\ \E ok \in BOOLEAN, overflow_checks \in BOOLEAN :
        LET dispatch == DispatchGroups(AsU32(gpuFrame.interpretation.width),
                                       AsU32(gpuFrame.interpretation.height),
                                       overflow_checks)
        IN  IF dispatch.kind = "panicked"
            THEN /\ gpuPc' = "panicked"
                 /\ UNCHANGED <<gpuDispatch, gpuReturn>>
            ELSE IF ok
            THEN /\ gpuDispatch' = dispatch.groups
                 /\ gpuPc' = "submit"
                 /\ UNCHANGED gpuReturn
            ELSE /\ gpuPc' = "done"
                 /\ gpuReturn' = [kind |-> "Err", error |-> "command buffer"]
                 /\ UNCHANGED gpuDispatch
    /\ UNCHANGED <<gpuNode, gpuUpstream, gpuFrame, gpuSinkLen, notGpuVars>>

\* fut.then_execute(queue, command_buffer)?.then_signal_fence_and_flush()?
GpuSubmit ==
    /\ gpuPc = "submit"
    /\ \E ok \in BOOLEAN :
        IF ok
        THEN /\ gpuPc' = "wait"
             /\ UNCHANGED gpuReturn
        ELSE /\ gpuPc' = "done"
             /\ gpuReturn' = [kind |-> "Err", error |-> "submission"]
    /\ UNCHANGED <<gpuNode, gpuUpstream, gpuFrame, gpuSinkLen, gpuDispatch, notGpuVars>>

\* future.wait(None).unwrap(), then Ok(Payload::from(Frame { .. }))
GpuWait ==
    /\ gpuPc = "wait"
    /\ \E ok \in BOOLEAN :
        IF ok
        THEN /\ gpuPc' = "done"
             /\ gpuReturn' = [kind |-> "Ok",
                              payload |-> [handle |-> "output", type |-> "Frame<GpuBuffer>",
                                           interpretation |->
                                               OutputInterpretation(gpuNode, gpuFrame),
                                           storage_len |-> gpuSinkLen]]
        ELSE /\ gpuPc' = "panicked"
             /\ UNCHANGED gpuReturn
    /\ UNCHANGED <<gpuNode, gpuUpstream, gpuFrame, gpuSinkLen, gpuDispatch, notGpuVars>>

NextGpu ==
    \/ GpuPullInput
    \/ GpuAllocate
    \/ GpuDescriptorSet
    \/ GpuRecord
    \/ GpuSubmit
    \/ GpuWait

SpecGpu == InitGpu /\ [][NextGpu]_vars

(***************************************************************************)
(* Claims about the frames the nodes return                                *)
(***************************************************************************)
\* C5: every frame returned by a node's pull has a storage length equal to
\* required_bytes() of the interpretation it is returned with.
C5_StorageLenIsRequiredBytes ==
    (gpuPc = "done" /\ gpuReturn.kind = "Ok") =>
        gpuReturn.payload.storage_len = required_bytes(gpuReturn.payload.interpretation)

\* C23: a GPU failure during a Calibrate or Histogram pull comes back as an
\* error result: the pull never ends in a panic.
C23_GpuFailureIsAnError == gpuPc # "panicked"

(***************************************************************************)
(* The dispatch statement of Calibrate::pull (calibrate.rs:168-172) and    *)
(* Histogram::pull (histogram.rs:125-129) over the frame sizes of 32 bits  *)
(*   The sizes are kept as u32 halves, so that sizes up to u32::MAX are    *)
(*   computed with exactly.  The build profile decides what an overflowing *)
(*   addition does: both profiles are behaviours of the program.           *)
(***************************************************************************)
\* the GPU nodes with a compute dispatch
DispatchNodes == {"Calibrate", "Histogram"}

\* frame widths: around the tile width of 16, around 2^16 and 2^31, and the
\* last widths before u32::MAX
DispatchWidths ==
    {U32(0, 0), U32(0, 1), U32(0, 15), U32(0, 16), U32(0, 17), U32(0, 4096),
     U32(0, 65535), U32(1, 0), U32(1, 1), U32(32767, 65535), U32(32768, 0),
     U32(65535, 65520), U32(65535, 65521), U32(65535, 65535)}

\* frame heights: around the tile height of 32, around 2^16, and the last
\* heights before u32::MAX
DispatchHeights ==
    {U32(0, 1), U32(0, 31), U32(0, 32), U32(0, 33), U32(0, 3072), U32(1, 0),
     U32(65535, 65504), U32(65535, 65505), U32(65535, 65535)}

InitDispatch ==
    /\ dgNode = "none"
    /\ dgWidth \in DispatchWidths
    /\ dgHeight \in DispatchHeights
    /\ dgOverflowChecks \in BOOLEAN
    /\ dgDispatch = [kind |-> "pending"]
    /\ PriorityIdle
    /\ ConvertIdle
    /\ GpuIdle
    /\ ReaderIdle
    /\ ResidencyIdle
    /\ ReactorIdle
    /\ DisplayIdle

\* builder. .. .dispatch([(width as u32 + 15) / 16, (height as u32 + 31) / 32, 1])
DgDispatch(node) ==
    /\ dgDispatch.kind = "pending"
    /\ dgNode' = node
    /\ dgDispatch' = DispatchGroups(dgWidth, dgHeight, dgOverflowChecks)
    /\ UNCHANGED <<dgWidth, dgHeight, dgOverflowChecks, notDispatchVars>>

NextDispatch == \E node \in DispatchNodes : DgDispatch(node)

SpecDispatch == InitDispatch /\ [][NextDispatch]_vars

\* the least count of tiles of the given size that cover a length of a
\* pixels: a / tile rounded up, without any intermediate sum
TilesToCover(a, tile) == U32Div(a, tile) + (IF a.lo % tile = 0 THEN 0 ELSE 1)

\* C31: for every frame width w and height h representable in 32 bits the
\* dispatch is recorded with exactly ceil(w/16) by ceil(h/32) by 1
\* workgroups, so that 16 * groups_x >= w and 32 * groups_y >= h.
C31_DispatchCoversFrame ==
    dgDispatch.kind \notin {"idle", "pending"} =>
        /\ dgDispatch.kind = "recorded"
        /\ dgDispatch.groups = <<TilesToCover(dgWidth, 16), TilesToCover(dgHeight, 32), 1>>

(***************************************************************************)
(* The pulls of the three nodes with an upstream: BitDepthConverter,       *)
(* Calibrate and Histogram, one pull of one node in a behaviour            *)
(***************************************************************************)
InitNodes == InitConvert \/ InitGpu

NextNodes == NextConvert \/ NextGpu

SpecNodes == InitNodes /\ [][NextNodes]_vars

\* C32: if the upstream pull returns an error, the pull of BitDepthConverter,
\* Calibrate and Histogram returns that error: it never reaches the
\* allocation of an output buffer or the submission of GPU work, and what it
\* returns is an error, not a payload.
C32_UpstreamErrorPropagates ==
    /\ (cvPc # "idle" /\ ~cvUpstream.ok) =>
            /\ cvPc \in {"start", "done"}
            /\ cvNewBuffer = <<>>
            /\ cvPc = "done" => cvReturn = [kind |-> "Err", error |-> "upstream"]
    /\ (gpuPc # "idle" /\ ~gpuUpstream.ok) =>
            /\ gpuPc \in {"start", "done"}
            /\ gpuSinkLen = 0
            /\ gpuDispatch = <<>>
            /\ gpuPc = "done" => gpuReturn = [kind |-> "Err", error |-> "upstream"]

\* a Histogram pull has returned after its upstream returned an error
C32_Witness ==
    /\ gpuNode = "Histogram"
    /\ ~gpuUpstream.ok
    /\ gpuPc = "done"
    /\ gpuReturn.kind = "Err"
    /\ gpuSinkLen = 0

(***************************************************************************)
(* CinemaDngReader (reader_cinema_dng.rs)                                  *)
(*   The files are numbered from 0.  A payload read from a file is         *)
(*   [file, pull]: the file it was read from and the pull that read it,    *)
(*   which is the identity of the allocation.  The content of a DNG file   *)
(*   is not modelled: a file is "good", "missing" (File::open fails) or    *)
(*   "corrupt" (it opens, and parsing or reading it fails).                *)
(***************************************************************************)
\* the pattern matches at most MaxFiles files
MaxFiles == 3

\* the file patterns: one for a directory of DNG files, one that matches nothing
FilePatterns == {"frames/*.dng", "none/*.dng"}

\* how many files glob can find for a pattern
MatchCounts(file_pattern) ==
    IF file_pattern = "none/*.dng" THEN {0} ELSE 0..MaxFiles

\* the frame numbers requested: the first two files, the first frame number
\* past three files, and one far out of range
RequestedFrames == {0, 1, 3, 7}

\* at most MaxPulls pulls are started
MaxPulls == 3

\* the callers that pull concurrently
MaxPullers == 2

Pullers == 1..MaxPullers

\* the frame number after lines 66-69, with the modulo forgotten
ReaderFrameNumber_noloop(internal_loop, requested, file_count) == requested

\* lines 66-69: if self.internal_loop { frame_number %= self.files.len() }
ReaderFrameNumber(internal_loop, requested, file_count) ==
    IF internal_loop THEN requested % file_count ELSE requested

\* the error of lines 71-75 with the two arguments of the message exchanged
OutOfRangeError_swapped(frame_number, length) ==
    [kind |-> "Err", error |-> "out of range", frame |-> length, length |-> frame_number]

\* lines 71-75: "frame {} was requested but this stream only has a length of {}"
OutOfRangeError(frame_number, length) ==
    [kind |-> "Err", error |-> "out of range", frame |-> frame_number, length |-> length]

\* the error of line 51 without the pattern
NoFilesError_nopattern(file_pattern) ==
    [kind |-> "Err", error |-> "no files matched the pattern", pattern |-> ""]

\* line 51: "no files matched the pattern {}"
NoFilesError(file_pattern) ==
    [kind |-> "Err", error |-> "no files matched the pattern", pattern |-> file_pattern]

\* the files on disk: all good, or the first of them missing or corrupt
FileStates(k) ==
    {[i \in 0..(k - 1) |-> IF i = 0 THEN first ELSE "good"] :
        first \in {"good", "missing", "corrupt"}}

PullIdle == [pc |-> "idle"]

\* Option<T>
None == [some |-> FALSE]

Some(payload) == [some |-> TRUE, value |-> payload]

\* get_caps that reports the file count also when the reader loops
get_caps_counted(params) ==
    [frame_count |-> Some(params.files), random_access |-> TRUE]

\* get_caps (lines 165-170)
get_caps(params) ==
    [frame_count |-> IF params.internal_loop THEN None ELSE Some(params.files),
     random_access |-> TRUE]

InitReader ==
    /\ \E file_pattern \in FilePatterns, cache_frames \in BOOLEAN,
          internal_loop \in BOOLEAN :
         \E k \in MatchCounts(file_pattern) :
           \E states \in FileStates(k) :
            rdParams = [file_pattern |-> file_pattern, files |-> k,
                        cache_frames |-> cache_frames,
                        internal_loop |-> internal_loop, file_state |-> states]
    /\ rdState = "new"
    /\ rdCache = <<>>
    /\ rdPull = [p \in Pullers |-> PullIdle]
    /\ rdOpened = <<>>
    /\ rdStarted = 0
    /\ rdResult = [kind |-> "pending"]
    /\ rdReturned = <<>>
    /\ rdCaps = [called |-> FALSE]
    /\ rdCacheLock = 0
    /\ PriorityIdle
    /\ ConvertIdle
    /\ GpuIdle
    /\ ResidencyIdle
    /\ ReactorIdle
    /\ DisplayIdle
    /\ DispatchIdle

\* from_parameters (lines 39-60): no file matched is an error; else the cache
\* gets an empty slot per file
RdFromParameters ==
    /\ rdState = "new"
    /\ IF rdParams.files = 0
       THEN /\ rdState' = "failed"
            /\ rdResult' = NoFilesError(rdParams.file_pattern)
            /\ UNCHANGED <<rdCache, rdOpened, rdReturned>>
       ELSE /\ rdState' = "constructed"
            /\ rdResult' = [kind |-> "Ok"]
            /\ rdCache' = [i \in 0..(rdParams.files - 1) |-> None]
            /\ rdOpened' = [i \in 0..(rdParams.files - 1) |-> 0]
            /\ rdReturned' = [i \in 0..(rdParams.files - 1) |-> {}]
    /\ UNCHANGED <<rdParams, rdPull, rdStarted, rdCaps, rdCacheLock, notReaderVars>>

\* lines 66-76: the frame number of the request, looped, and the bounds check.
\* The callers are interchangeable, so they make their first pulls in the order
\* of their numbers.  `earlier` notes the payloads that completed pulls of this frame had returned
\* when this pull began
RdPullBegin(p) ==
    /\ rdState = "constructed"
    /\ rdPull[p].pc \in {"idle", "done"}
    /\ \A q \in Pullers : q < p => rdPull[q].pc # "idle"
    /\ rdStarted < MaxPulls
    /\ \E requested \in RequestedFrames :
        LET frame_number == ReaderFrameNumber(rdParams.internal_loop, requested,
                                              rdParams.files)
        IN  rdPull' = [rdPull EXCEPT ![p] =
                IF frame_number >= rdParams.files
                THEN [pc |-> "done", requested |-> requested,
                      frame_number |-> frame_number, earlier |-> {},
                      result |-> OutOfRangeError(frame_number, rdParams.files)]
                ELSE [pc |-> IF rdParams.cache_frames THEN "check_cache" ELSE "open",
                      id |-> rdStarted + 1, requested |-> requested,
                      frame_number |-> frame_number,
                      earlier |-> rdReturned[frame_number]]]
    /\ rdStarted' = rdStarted + 1
    /\ UNCHANGED <<rdParams, rdState, rdCache, rdOpened, rdResult, rdReturned, rdCaps,
                   rdCacheLock, notReaderVars>>

\* a guard bound to a local of pull, which lives until pull returns
GuardAfterStatement_bound(p) == p

\* the holder of the mutex once the statement that locked it has ended: the
\* guards of lines 79 and 160 are temporaries, that of line 79 in the
\* scrutinee of an `if let` without else, and are dropped with their statement
GuardAfterStatement(p) == 0

\* lines 78-82: under the cache lock, a filled slot is cloned and returned
RdCheckCache(p) ==
    /\ rdPull[p].pc = "check_cache"
    /\ rdCacheLock = 0
    /\ LET slot == rdCache[rdPull[p].frame_number]
       IN  IF slot.some
           THEN /\ rdPull' = [rdPull EXCEPT ![p] =
                        [pc |-> "done", requested |-> @.requested,
                         frame_number |-> @.frame_number, earlier |-> @.earlier,
                         result |-> [kind |-> "Ok", payload |-> slot.value]]]
                /\ rdReturned' = [rdReturned EXCEPT ![rdPull[p].frame_number] =
                                        @ \cup {slot.value}]
                /\ rdCacheLock' = 0
           ELSE /\ rdPull' = [rdPull EXCEPT ![p] = [@ EXCEPT !.pc = "open"]]
                /\ rdCacheLock' = GuardAfterStatement(p)
                /\ UNCHANGED rdReturned
    /\ UNCHANGED <<rdParams, rdState, rdCache, rdOpened, rdStarted, rdResult, rdCaps,
                   notReaderVars>>

\* lines 84-157: the file is opened, parsed and read into a new payload
RdOpen(p) ==
    /\ rdPull[p].pc = "open"
    /\ LET file == rdPull[p].frame_number
           state == rdParams.file_state[file]
       IN  /\ rdOpened' = IF state = "missing" THEN rdOpened
                          ELSE [rdOpened EXCEPT ![file] = @ + 1]
           /\ rdPull' = [rdPull EXCEPT ![p] =
                IF state = "missing"
                THEN [pc |-> "done", requested |-> @.requested,
                      frame_number |-> @.frame_number, earlier |-> @.earlier,
                      result |-> [kind |-> "Err", error |-> "couldn't open DNG file"]]
                ELSE IF state = "corrupt"
                THEN [pc |-> "done", requested |-> @.requested,
                      frame_number |-> @.frame_number, earlier |-> @.earlier,
                      result |-> [kind |-> "Err", error |-> "couldn't parse DNG file"]]
                ELSE [@ EXCEPT !.pc = "store"] @@
                     ("payload" :> [file |-> file, pull |-> rdPull[p].id])]
    /\ UNCHANGED <<rdParams, rdState, rdCache, rdStarted, rdResult, rdReturned, rdCaps,
                   rdCacheLock, notReaderVars>>

\* lines 159-162: with cache-frames the slot is set under the cache lock; the
\* payload is returned
RdStore(p) ==
    /\ rdPull[p].pc = "store"
    /\ rdParams.cache_frames => rdCacheLock = 0
    /\ rdCacheLock' = 0
    /\ rdCache' = IF rdParams.cache_frames
                  THEN [rdCache EXCEPT ![rdPull[p].frame_number] = Some(rdPull[p].payload)]
                  ELSE rdCache
    /\ rdPull' = [rdPull EXCEPT ![p] =
            [pc |-> "done", requested |-> @.requested, frame_number |-> @.frame_number,
             earlier |-> @.earlier,
             result |-> [kind |-> "Ok", payload |-> @.payload]]]
    /\ rdReturned' = [rdReturned EXCEPT ![rdPull[p].frame_number] =
                            @ \cup {rdPull[p].payload}]
    /\ UNCHANGED <<rdParams, rdState, rdOpened, rdStarted, rdResult, rdCaps,
                   notReaderVars>>

\* lines 165-170: get_caps reads the reader's fields
RdGetCaps ==
    /\ rdState = "constructed"
    /\ LET caps == get_caps(rdParams)
       IN  rdCaps' = [called |-> TRUE,
                      first |-> IF rdCaps.called THEN rdCaps.first ELSE caps,
                      last |-> caps]
    /\ UNCHANGED <<rdParams, rdState, rdCache, rdPull, rdOpened, rdStarted, rdResult,
                   rdReturned, rdCacheLock, notReaderVars>>

NextReader ==
    \/ RdFromParameters
    \/ \E p \in Pullers : RdPullBegin(p)
    \/ \E p \in Pullers : RdCheckCache(p)
    \/ \E p \in Pullers : RdOpen(p)
    \/ \E p \in Pullers : RdStore(p)
    \/ RdGetCaps

SpecReader == InitReader /\ [][NextReader]_vars

(***************************************************************************)
(* Claims about CinemaDngReader                                            *)
(***************************************************************************)
\* C10: with internal-loop set and k >= 1 files, pull(n) for any n serves
\* file index n mod k (so pull(7) with 3 files serves the same frame as
\* pull(1)) and never fails with an out-of-range error.
C10_InternalLoopServesModulo ==
    (rdState = "constructed" /\ rdParams.internal_loop) =>
        \A p \in Pullers :
            rdPull[p].pc # "idle" =>
                /\ rdPull[p].frame_number = rdPull[p].requested % rdParams.files
                /\ rdPull[p].pc = "store" =>
                        rdPull[p].payload.file = rdPull[p].requested % rdParams.files
                /\ rdPull[p].pc = "done" =>
                    /\ rdPull[p].result.kind = "Err" =>
                            rdPull[p].result.error # "out of range"
                    /\ rdPull[p].result.kind = "Ok" =>
                            rdPull[p].result.payload.file =
                                rdPull[p].requested % rdParams.files

\* with 3 files and internal-loop, one caller pulled frame 1 and the other
\* frame 7, and both were served file 1
C10_Witness ==
    /\ rdState = "constructed"
    /\ rdParams.internal_loop
    /\ rdParams.files = 3
    /\ rdPull[1].pc = "done" /\ rdPull[1].requested = 1
    /\ rdPull[2].pc = "done" /\ rdPull[2].requested = 7
    /\ rdPull[1].result.kind = "Ok" /\ rdPull[1].result.payload.file = 1
    /\ rdPull[2].result.kind = "Ok" /\ rdPull[2].result.payload.file = 1

\* C11: without internal-loop, a pull of a frame number n at or beyond the
\* file count returns at once an error that reports n and the file count; the
\* step opens no file and leaves the cache as it was.
C11_OutOfRangeReported ==
    [][\A p \in Pullers :
        (/\ rdState = "constructed"
         /\ ~rdParams.internal_loop
         /\ rdPull[p].pc \in {"idle", "done"}
         /\ rdPull'[p] # rdPull[p]
         /\ rdPull'[p].requested >= rdParams.files)
        => /\ rdPull'[p].pc = "done"
           /\ rdPull'[p].result.kind = "Err"
           /\ rdPull'[p].result.frame = rdPull'[p].requested
           /\ rdPull'[p].result.length = rdParams.files
           /\ rdOpened' = rdOpened
           /\ rdCache' = rdCache]_vars

\* frame 7 of 3 files was pulled without internal-loop: the error names 7 and
\* 3, no file has been opened and no cache slot is filled
C11_Witness ==
    /\ rdState = "constructed"
    /\ ~rdParams.internal_loop
    /\ rdParams.cache_frames
    /\ rdParams.files = 3
    /\ rdPull[1].pc = "done"
    /\ rdPull[1].requested = 7
    /\ rdPull[1].result = [kind |-> "Err", error |-> "out of range",
                           frame |-> 7, length |-> 3]
    /\ \A i \in 0..2 : rdOpened[i] = 0 /\ ~rdCache[i].some

\* C12: with cache-frames, a pull of frame n that begins after a pull of n has
\* completed successfully returns the payload handle that pull returned, and
\* does not open the file.
C12_LaterPullSameHandle ==
    (rdState = "constructed" /\ rdParams.cache_frames) =>
        \A p \in Pullers :
            (rdPull[p].pc # "idle" /\ rdPull[p].earlier # {}) =>
                /\ rdPull[p].pc \notin {"open", "store"}
                /\ (rdPull[p].pc = "done" /\ rdPull[p].result.kind = "Ok") =>
                        rdPull[p].earlier = {rdPull[p].result.payload}

\* C13: get_caps returns frame_count None with internal-loop and Some(number
\* of files) without, random_access true, and the same value on every call.
C13_CapsFixed ==
    rdCaps.called =>
        /\ rdCaps.last.random_access
        /\ rdParams.internal_loop => ~rdCaps.last.frame_count.some
        /\ ~rdParams.internal_loop =>
                /\ rdCaps.last.frame_count.some
                /\ rdCaps.last.frame_count.value = rdParams.files
        /\ rdCaps.first = rdCaps.last

\* get_caps was called on a looping reader of 3 files after all pulls were made
C13_Witness ==
    /\ rdCaps.called
    /\ rdParams.internal_loop
    /\ rdParams.files = 3
    /\ rdStarted = MaxPulls
    /\ rdCaps.last = [frame_count |-> [some |-> FALSE], random_access |-> TRUE]

\* C14: a pattern that matches no file makes from_parameters fail with an
\* error that contains the pattern; a constructed reader has at least one file
\* (and a cache slot for each).
C14_NoFilesIsAnError ==
    /\ (rdState \in {"constructed", "failed"} /\ rdParams.files = 0) =>
            /\ rdState = "failed"
            /\ rdResult.kind = "Err"
            /\ rdResult.pattern = rdParams.file_pattern
    /\ rdState = "constructed" =>
            /\ rdResult.kind = "Ok"
            /\ rdParams.files >= 1
            /\ DOMAIN rdCache = 0..(rdParams.files - 1)

\* the pattern none/*.dng matched nothing and the error carries it
C14_Witness ==
    /\ rdState = "failed"
    /\ rdParams.file_pattern = "none/*.dng"
    /\ rdResult = [kind |-> "Err", error |-> "no files matched the pattern",
                   pattern |-> "none/*.dng"]

\* C25: the guard of the cache mutex does not outlive the statement that
\* checks a slot or stores one: no pull holds it while a pull opens, parses or
\* reads its file, so the pull that comes to check or to store its slot finds
\* the mutex free, which is all its step waits for.
C25_CacheLockNotHeldAcrossRead ==
    (\E q \in Pullers : rdPull[q].pc \in {"open", "store"}) => rdCacheLock = 0

\* caller 1 has found its slot empty and reads file 0 while caller 2 comes to
\* check the slot of file 1, and the mutex is free
C25_Witness ==
    /\ rdState = "constructed"
    /\ rdParams.cache_frames
    /\ rdPull[1].pc = "open"
    /\ rdPull[1].frame_number = 0
    /\ rdPull[2].pc = "check_cache"
    /\ rdPull[2].frame_number = 1
    /\ rdCacheLock = 0

\* C26: with cache-frames, however the pulls of one frame interleave, its
\* file is opened at most once and all of them return the same payload handle;
\* a filled slot is then never given another payload, since the step that
\* stores a payload also returns it.  Stated for the files that can be read:
\* a pull that fails stores nothing, so the next pull opens the file again.
C26_ConcurrentPullsShareOneRead ==
    (rdState = "constructed" /\ rdParams.cache_frames) =>
        \A file \in DOMAIN rdCache :
            rdParams.file_state[file] = "good" =>
                /\ rdOpened[file] <= 1
                /\ Cardinality(rdReturned[file]) <= 1

(***************************************************************************)
(* Residency coercion (processing_context.rs, lines 195-234)               *)
(*   ensure_cpu_buffer_frame is followed statement by statement through    *)
(*   to_cpu_buffer_frame; the GPU runs the copy command on its own once    *)
(*   the command buffer was handed to the queue.  A second call is made on *)
(*   a payload that wraps the result of the first.                         *)
(***************************************************************************)
\* host frames
ResidencyCpuFrames ==
    UNION { { [handle |-> "upstream", type |-> "Frame<CpuBuffer>",
               interpretation |-> Interpretation(w, 1, UInt(8)), storage |-> st] :
              st \in StoragesOf(w) } :
            w \in 1..2 }

\* device frames; the last one has a buffer shorter than its interpretation
\* asks for, as Histogram returns them
ResidencyGpuFrames ==
    UNION { { [handle |-> "upstream", type |-> "Frame<GpuBuffer>",
               interpretation |-> Interpretation(w, 1, s), storage |-> st] :
              st \in StoragesOf(required_bytes(Interpretation(w, 1, s))) } :
            w \in 1..2, s \in {UInt(8), UInt(16)} }
    \cup { [handle |-> "upstream", type |-> "Frame<GpuBuffer>",
            interpretation |-> Interpretation(4, 1, FP32), storage |-> <<60, 165, 60>>] }

\* payloads that hold no frame
ResidencyOtherPayloads ==
    { [handle |-> "upstream", type |-> t] : t \in {"()", "Frame<other>"} }

ResidencyPayloads == ResidencyCpuFrames \cup ResidencyGpuFrames \cup ResidencyOtherPayloads

\* dropping the future without waiting for the queue
FutureDropReturns_nowait(gpu) == TRUE

\* lines 217-218: dropping the future blocks this thread until the GPU has
\* finished the work
FutureDropReturns(gpu) == gpu.state = "completed"

InitResidency ==
    /\ rsPayload \in ResidencyPayloads
    /\ rsCall = 1
    /\ rsPc = "start"
    /\ rsBuffer = <<>>
    /\ rsGpu = [state |-> "idle", copied |-> 0]
    /\ rsTransfers = 0
    /\ rsResult = [kind |-> "pending"]
    /\ rsFirst = [kind |-> "pending"]
    /\ PriorityIdle
    /\ ConvertIdle
    /\ GpuIdle
    /\ ReaderIdle
    /\ ReactorIdle
    /\ DisplayIdle
    /\ DispatchIdle

\* lines 222-233: the payload is downcast to a host frame, else to a device
\* frame, else the call fails
RsEnsure ==
    /\ rsPc = "start"
    /\ IF ~downcast(rsPayload, "Frame<CpuBuffer>").ok
            /\ downcast(rsPayload, "Frame<GpuBuffer>").ok
       THEN /\ rsPc' = "require_vulkan"
            /\ UNCHANGED rsResult
       ELSE LET r == ensure_cpu_buffer_frame(rsPayload, FALSE)
            IN  /\ rsPc' = "done"
                /\ rsResult' = IF r.ok THEN [kind |-> "Ok", frame |-> r.frame]
                               ELSE [kind |-> "Err", error |-> r.error]
    /\ UNCHANGED <<rsPayload, rsCall, rsBuffer, rsGpu, rsTransfers, rsFirst,
                   notResidencyVars>>

\* lines 196-198: require_vulkan()? and the queue found by .unwrap()
RsRequireVulkan ==
    /\ rsPc = "require_vulkan"
    /\ \E present \in BOOLEAN, transfer_queue \in BOOLEAN :
        IF ~present
        THEN /\ rsPc' = "done"
             /\ rsResult' = [kind |-> "Err",
                             error |-> [kind |-> "gpu required but not present"]]
        ELSE IF ~transfer_queue
        THEN /\ rsPc' = "panicked"
             /\ UNCHANGED rsResult
        ELSE /\ rsPc' = "allocate"
             /\ UNCHANGED rsResult
    /\ UNCHANGED <<rsPayload, rsCall, rsBuffer, rsGpu, rsTransfers, rsFirst,
                   notResidencyVars>>

\* line 200: a host buffer of the size of the device buffer; the allocation
\* is unwrapped (line 185)
RsAllocate ==
    /\ rsPc = "allocate"
    /\ \E ok \in BOOLEAN :
        IF ok
        THEN /\ rsPc' = "build"
             /\ rsBuffer' = get_uninit_cpu_buffer(Len(rsPayload.storage))
        ELSE /\ rsPc' = "panicked"
             /\ UNCHANGED rsBuffer
    /\ UNCHANGED <<rsPayload, rsCall, rsGpu, rsTransfers, rsResult, rsFirst,
                   notResidencyVars>>

\* lines 201-211: the command buffer builder (an error is returned), the copy
\* command and the build (both unwrapped)
RsBuildCommand ==
    /\ rsPc = "build"
    /\ \E outcome \in {"ok", "err", "panic"} :
        /\ rsPc' = CASE outcome = "ok" -> "execute"
                     [] outcome = "err" -> "done"
                     [] outcome = "panic" -> "panicked"
        /\ rsResult' = IF outcome = "err"
                       THEN [kind |-> "Err", error |-> [kind |-> "command buffer"]]
                       ELSE rsResult
        /\ rsGpu' = IF outcome = "ok" THEN [state |-> "recorded", copied |-> 0]
                    ELSE rsGpu
    /\ UNCHANGED <<rsPayload, rsCall, rsBuffer, rsTransfers, rsFirst, notResidencyVars>>

\* lines 212-215: the command buffer is handed to the queue; a failure is
\* unreachable!()
RsExecute ==
    /\ rsPc = "execute"
    /\ \E ok \in BOOLEAN :
        IF ok
        THEN /\ rsPc' = "drop_future"
             /\ rsGpu' = [state |-> "copying", copied |-> 0]
             /\ rsTransfers' = rsTransfers + 1
        ELSE /\ rsPc' = "panicked"
             /\ UNCHANGED <<rsGpu, rsTransfers>>
    /\ UNCHANGED <<rsPayload, rsCall, rsBuffer, rsResult, rsFirst, notResidencyVars>>

\* the GPU copies the next byte of the device buffer into the host buffer
RsGpuCopy ==
    /\ rsGpu.state = "copying"
    /\ LET i == rsGpu.copied + 1
       IN  /\ rsBuffer' = [rsBuffer EXCEPT ![i] = rsPayload.storage[i]]
           /\ rsGpu' = [state |-> IF i = Len(rsPayload.storage) THEN "completed"
                                  ELSE "copying",
                        copied |-> i]
    /\ UNCHANGED <<rsPayload, rsCall, rsPc, rsTransfers, rsResult, rsFirst,
                   notResidencyVars>>

\* lines 217-220 and 226: the future is dropped, the frame is built around the
\* host buffer and returned in a new Arc
RsDropFuture ==
    /\ rsPc = "drop_future"
    /\ FutureDropReturns(rsGpu)
    /\ rsPc' = "done"
    /\ rsResult' = [kind |-> "Ok",
                    frame |-> [handle |-> NewHandle(rsPayload.handle),
                               type |-> "Frame<CpuBuffer>",
                               interpretation |-> rsPayload.interpretation,
                               storage |-> rsBuffer]]
    /\ UNCHANGED <<rsPayload, rsCall, rsBuffer, rsGpu, rsTransfers, rsFirst,
                   notResidencyVars>>

\* the caller wraps the frame it got in a payload and calls again
RsAgain ==
    /\ rsPc = "done"
    /\ rsCall = 1
    /\ rsResult.kind = "Ok"
    /\ rsFirst' = [kind |-> "Ok", result |-> rsResult, transfers |-> rsTransfers]
    /\ rsPayload' = rsResult.frame
    /\ rsCall' = 2
    /\ rsPc' = "start"
    /\ rsResult' = [kind |-> "pending"]
    /\ UNCHANGED <<rsBuffer, rsGpu, rsTransfers, notResidencyVars>>

NextResidency ==
    \/ RsEnsure
    \/ RsRequireVulkan
    \/ RsAllocate
    \/ RsBuildCommand
    \/ RsExecute
    \/ RsGpuCopy
    \/ RsDropFuture
    \/ RsAgain

SpecResidency == InitResidency /\ [][NextResidency]_vars

(***************************************************************************)
(* Claims about the residency coercion                                     *)
(***************************************************************************)
\* C15: ensure_cpu_buffer_frame returns the frame of the payload itself when
\* the payload holds a host frame; for a device frame what it returns is a
\* newly transferred host frame; for any other payload it returns an error that
\* names the type wanted and the type of the payload.
C15_EnsureByPayloadType ==
    rsPc = "done" =>
        /\ rsPayload.type = "Frame<CpuBuffer>" =>
                /\ rsResult.kind = "Ok"
                /\ rsResult.frame = rsPayload
                /\ rsCall = 1 => rsTransfers = 0
        /\ (rsPayload.type = "Frame<GpuBuffer>" /\ rsResult.kind = "Ok") =>
                /\ rsResult.frame.type = "Frame<CpuBuffer>"
                /\ rsResult.frame.handle # rsPayload.handle
                /\ rsTransfers = 1
        /\ rsPayload.type \notin {"Frame<CpuBuffer>", "Frame<GpuBuffer>"} =>
                /\ rsResult.kind = "Err"
                /\ rsResult.error.kind = "wrong type"
                /\ rsResult.error.wanted = "Frame<CpuBuffer>"
                /\ rsResult.error.actual = rsPayload.type
                /\ rsTransfers = 0

\* the call on an empty payload has failed, naming both types
C15_Witness ==
    /\ rsPc = "done"
    /\ rsPayload.type = "()"
    /\ rsResult = [kind |-> "Err",
                   error |-> [kind |-> "wrong type", wanted |-> "Frame<CpuBuffer>",
                              actual |-> "()"]]

\* C16: when ensure_cpu_buffer_frame succeeded on a payload, calling it on a
\* payload that wraps the result returns that same result, and makes no
\* further transfer.
C16_CoercionIdempotent ==
    (rsCall = 2 /\ rsPc = "done") =>
        /\ rsResult = rsFirst.result
        /\ rsTransfers = rsFirst.transfers

\* the second call has returned, after the first transferred a device frame
C16_Witness ==
    /\ rsCall = 2
    /\ rsPc = "done"
    /\ rsFirst.transfers = 1
    /\ rsResult.kind = "Ok"
    /\ rsResult.frame.handle = "transferred"
    /\ rsResult = rsFirst.result

\* C17: when the transfer of a device frame returns a host frame, the copy on
\* the GPU has completed, and the host frame has the interpretation, the length
\* and the bytes of the device frame.
C17_TransferCompleteAndEqual ==
    (rsCall = 1 /\ rsPc = "done" /\ rsPayload.type = "Frame<GpuBuffer>"
        /\ rsResult.kind = "Ok") =>
        /\ rsGpu.state = "completed"
        /\ rsResult.frame.interpretation = rsPayload.interpretation
        /\ Len(rsResult.frame.storage) = Len(rsPayload.storage)
        /\ \A i \in 1..Len(rsPayload.storage) :
                rsResult.frame.storage[i] = rsPayload.storage[i]

\* a device frame of three bytes, shorter than its interpretation asks for,
\* was transferred
C17_Witness ==
    /\ rsCall = 1
    /\ rsPc = "done"
    /\ rsPayload.type = "Frame<GpuBuffer>"
    /\ rsPayload.storage = <<60, 165, 60>>
    /\ rsResult.kind = "Ok"
    /\ rsResult.frame.storage = <<60, 165, 60>>
    /\ rsGpu = [state |-> "completed", copied |-> 3]

(***************************************************************************)
(* The prioritized reactor behind ProcessingContext::spawn                 *)
(* (processing_context.rs, lines 243-249; pipeline_processing/             *)
(* prioritized_executor.rs).  N worker threads share a min-priority queue  *)
(* of ready tasks; a worker takes the ready task with the lowest           *)
(* priority, the earliest submitted among equals, and runs it until it     *)
(* suspends or completes; a task that is woken is ready again at its       *)
(* original priority.  The tasks are numbered in the order of their        *)
(* spawning, and every task notes how many tasks had been started when it  *)
(* was spawned.                                                            *)
(***************************************************************************)
\* the tasks spawned
MaxTasks == 2

\* the worker threads of the reactor (RECORDER_NUM_THREADS)
MaxWorkers == 2

\* how often the tasks suspend, all together
MaxSuspends == 1

Tasks == 1..MaxTasks

Workers == 1..MaxWorkers

\* Priority::new(0, 100), Priority::new(0, 5), Priority::new(1, 0)
TaskPriorities ==
    {Priority_new(0, {2, 5, 6}), Priority_new(0, {0, 2}), Priority_new(1, {})}

Unspawned ==
    [state |-> "unspawned", priority |-> Priority_default, started_before |-> 0,
     suspends |-> 0]

ReadyTasks(tasks) == {t \in DOMAIN tasks : tasks[t].state = "ready"}

\* the queue as a plain FIFO: the earliest submitted ready task
NextReady_fifo(tasks) ==
    CHOOSE t \in ReadyTasks(tasks) : \A u \in ReadyTasks(tasks) : t <= u

\* the head of the min-priority queue: the ready task of the lowest priority,
\* the earliest submitted among those of equal priority
NextReady(tasks) ==
    CHOOSE t \in ReadyTasks(tasks) :
        \A u \in ReadyTasks(tasks) \ {t} :
            \/ Priority_lt(tasks[t].priority, tasks[u].priority)
            \/ /\ tasks[t].priority = tasks[u].priority
               /\ t < u

\* the place of task t in a sequence of tasks, 0 when it is not in it
PlaceIn(order, t) ==
    IF \E i \in 1..Len(order) : order[i] = t
    THEN CHOOSE i \in 1..Len(order) : order[i] = t
    ELSE 0

\* all the suspensions so far
RECURSIVE SuspendsUpTo(_, _)
SuspendsUpTo(tasks, t) ==
    IF t = 0 THEN 0 ELSE tasks[t].suspends + SuspendsUpTo(tasks, t - 1)

InitReactor ==
    /\ \E n \in 1..MaxWorkers : rxWorkers = [w \in 1..n |-> 0]
    /\ rxTasks = [t \in Tasks |-> Unspawned]
    /\ rxStarted = <<>>
    /\ rxCompleted = <<>>
    /\ PriorityIdle
    /\ ConvertIdle
    /\ GpuIdle
    /\ ReaderIdle
    /\ ResidencyIdle
    /\ DisplayIdle
    /\ DispatchIdle

\* ProcessingContext::spawn (lines 243-249): the future is handed to the
\* reactor with its priority and is ready at once
RxSpawn(t) ==
    /\ rxTasks[t].state = "unspawned"
    /\ \A u \in Tasks : u < t => rxTasks[u].state # "unspawned"
    /\ \E task_priority \in TaskPriorities :
        rxTasks' = [rxTasks EXCEPT ![t] =
            [@ EXCEPT !.state = "ready", !.priority = task_priority,
                      !.started_before = Len(rxStarted)]]
    /\ UNCHANGED <<rxWorkers, rxStarted, rxCompleted, notReactorVars>>

\* an idle worker takes the head of the queue and resumes it
RxDequeue(w) ==
    /\ w \in DOMAIN rxWorkers
    /\ rxWorkers[w] = 0
    /\ ReadyTasks(rxTasks) # {}
    /\ LET t == NextReady(rxTasks)
       IN  /\ rxWorkers' = [rxWorkers EXCEPT ![w] = t]
           /\ rxTasks' = [rxTasks EXCEPT ![t] = [@ EXCEPT !.state = "running"]]
           /\ rxStarted' = IF PlaceIn(rxStarted, t) = 0 THEN Append(rxStarted, t)
                           ELSE rxStarted
    /\ UNCHANGED <<rxCompleted, notReactorVars>>

\* the running task suspends on an external event; its worker is free
RxSuspend(w) ==
    /\ w \in DOMAIN rxWorkers
    /\ rxWorkers[w] # 0
    /\ SuspendsUpTo(rxTasks, MaxTasks) < MaxSuspends
    /\ rxTasks' = [rxTasks EXCEPT ![rxWorkers[w]] =
            [@ EXCEPT !.state = "suspended", !.suspends = @ + 1]]
    /\ rxWorkers' = [rxWorkers EXCEPT ![w] = 0]
    /\ UNCHANGED <<rxStarted, rxCompleted, notReactorVars>>

\* the event arrives: the task is ready again at its original priority
RxWake(t) ==
    /\ rxTasks[t].state = "suspended"
    /\ rxTasks' = [rxTasks EXCEPT ![t] = [@ EXCEPT !.state = "ready"]]
    /\ UNCHANGED <<rxWorkers, rxStarted, rxCompleted, notReactorVars>>

\* the running task completes; its worker is free
RxComplete(w) ==
    /\ w \in DOMAIN rxWorkers
    /\ rxWorkers[w] # 0
    /\ rxTasks' = [rxTasks EXCEPT ![rxWorkers[w]] = [@ EXCEPT !.state = "done"]]
    /\ rxCompleted' = Append(rxCompleted, rxWorkers[w])
    /\ rxWorkers' = [rxWorkers EXCEPT ![w] = 0]
    /\ UNCHANGED <<rxStarted, notReactorVars>>

NextReactor ==
    \/ \E t \in Tasks : RxSpawn(t)
    \/ \E w \in Workers : RxDequeue(w)
    \/ \E w \in Workers : RxSuspend(w)
    \/ \E t \in Tasks : RxWake(t)
    \/ \E w \in Workers : RxComplete(w)

SpecReactor == InitReactor /\ [][NextReactor]_vars

(***************************************************************************)
(* Claims about the reactor                                                *)
(***************************************************************************)
\* task a was spawned before task b was first started
SpawnedBeforeStartOf(a, b) ==
    /\ rxTasks[a].state # "unspawned"
    /\ PlaceIn(rxStarted, b) > rxTasks[a].started_before

\* task a was in the queue, not yet started, when task b was spawned
WaitingAtSpawnOf(a, b) ==
    \/ PlaceIn(rxStarted, a) = 0
    \/ PlaceIn(rxStarted, a) > rxTasks[b].started_before

\* C18: for two spawned tasks A and B with A.priority < B.priority that were
\* both ready before either was taken by a worker, A is started before B.
C18_LowerPriorityStartsFirst ==
    \A a \in DOMAIN rxTasks, b \in DOMAIN rxTasks :
        (/\ a # b
         /\ PlaceIn(rxStarted, b) # 0
         /\ U64Lt(rxTasks[a].priority, rxTasks[b].priority)
         /\ SpawnedBeforeStartOf(a, b)
         /\ WaitingAtSpawnOf(a, b))
        => /\ PlaceIn(rxStarted, a) # 0
           /\ PlaceIn(rxStarted, a) < PlaceIn(rxStarted, b)

\* task 1 was spawned with Priority::new(0, 100), task 2 with
\* Priority::new(0, 5), and then, both waiting, task 2 was started first
C18_Witness ==
    /\ rxTasks # <<>>
    /\ rxTasks[1].priority = Priority_new(0, {2, 5, 6})
    /\ rxTasks[2].priority = Priority_new(0, {0, 2})
    /\ rxTasks[2].started_before = 0
    /\ rxStarted = <<2, 1>>

\* the scenario of C19: one worker, task 1 (A) spawned with
\* Priority::new(0, 100), then task 2 (B) with Priority::new(0, 5)
C19_Scenario ==
    /\ rxTasks # <<>>
    /\ DOMAIN rxWorkers = {1}
    /\ rxTasks[1].priority = Priority_new(0, {2, 5, 6})
    /\ rxTasks[2].state # "unspawned"
    /\ rxTasks[2].priority = Priority_new(0, {0, 2})

\* C19 as stated: in that scenario B completes before A in every execution.
C19_BCompletesFirst ==
    (C19_Scenario /\ rxTasks[1].state = "done") =>
        /\ rxTasks[2].state = "done"
        /\ PlaceIn(rxCompleted, 2) < PlaceIn(rxCompleted, 1)

\* C19 as amended: in that scenario, if the worker has not taken A by the time
\* B is spawned, B is started before A, and B completes before A when B runs
\* to its end without suspending.
C19_BFirstUnlessATaken ==
    (C19_Scenario /\ WaitingAtSpawnOf(1, 2)) =>
        /\ PlaceIn(rxStarted, 1) # 0 =>
            /\ PlaceIn(rxStarted, 2) # 0
            /\ PlaceIn(rxStarted, 2) < PlaceIn(rxStarted, 1)
        /\ (rxTasks[1].state = "done" /\ rxTasks[2].suspends = 0) =>
            /\ rxTasks[2].state = "done"
            /\ PlaceIn(rxCompleted, 2) < PlaceIn(rxCompleted, 1)

\* both were waiting when the worker came, and B has completed before A
C19_Witness ==
    /\ C19_Scenario
    /\ rxTasks[2].started_before = 0
    /\ rxStarted = <<2, 1>>
    /\ rxTasks[2].suspends = 0
    /\ rxCompleted = <<2, 1>>

(***************************************************************************)
(* A GPU node's pull as a task of the reactor.  Task 1 is the future of    *)
(* Calibrate::pull or Histogram::pull, spawned first; the other tasks are  *)
(* any futures.  The pull takes its steps while a worker runs task 1.  Its *)
(* only await is self.input.pull(request).await (calibrate.rs line 116,    *)
(* histogram.rs line 71): it is the only place where task 1 can suspend.   *)
(***************************************************************************)
PullTask == 1

\* a worker is running the pull
PullRunning == \E w \in DOMAIN rxWorkers : rxWorkers[w] = PullTask

\* what the upstream pull resolves to: an error, a payload that is no frame,
\* and the frames of 16 bit samples
GpuTaskUpstreams ==
    {u \in GpuUpstreamResults :
        (u.ok /\ u.payload.type # "other") =>
            u.payload.interpretation.sample_interpretation = UInt(16)}

InitGpuTask ==
    /\ gpuNode \in {"Calibrate", "Histogram"}
    /\ gpuUpstream \in GpuTaskUpstreams
    /\ gpuPc = "start"
    /\ gpuFrame = [handle |-> "none"]
    /\ gpuSinkLen = 0
    /\ gpuDispatch = <<>>
    /\ gpuReturn = [kind |-> "pending"]
    /\ \E n \in 1..MaxWorkers : rxWorkers = [w \in 1..n |-> 0]
    /\ rxTasks = [t \in Tasks |-> Unspawned]
    /\ rxStarted = <<>>
    /\ rxCompleted = <<>>
    /\ PriorityIdle
    /\ ConvertIdle
    /\ ReaderIdle
    /\ ResidencyIdle
    /\ DisplayIdle
    /\ DispatchIdle

\* task 1 returns Pending at its await only
GtSuspend(w) ==
    /\ w \in DOMAIN rxWorkers
    /\ rxWorkers[w] = PullTask => gpuPc = "start"
    /\ RxSuspend(w)

\* task 1 returns Ready when pull has returned
GtComplete(w) ==
    /\ w \in DOMAIN rxWorkers
    /\ rxWorkers[w] = PullTask => gpuPc = "done"
    /\ RxComplete(w)

GtPullInput == PullRunning /\ GpuPullInput

GtAllocate == PullRunning /\ GpuAllocate

GtDescriptorSet == PullRunning /\ GpuDescriptorSet

GtRecord == PullRunning /\ GpuRecord

GtSubmit == PullRunning /\ GpuSubmit

\* future.wait(None) is called on the worker's thread and returns when the
\* fence is signalled (calibrate.rs line 178, histogram.rs line 135)
GtWait == PullRunning /\ GpuWait

NextGpuTask ==
    \/ \E t \in Tasks : RxSpawn(t)
    \/ \E w \in Workers : RxDequeue(w)
    \/ \E w \in Workers : GtSuspend(w)
    \/ \E t \in Tasks : RxWake(t)
    \/ \E w \in Workers : GtComplete(w)
    \/ GtPullInput
    \/ GtAllocate
    \/ GtDescriptorSet
    \/ GtRecord
    \/ GtSubmit
    \/ GtWait

SpecGpuTask == InitGpuTask /\ [][NextGpuTask]_vars

\* C24: while the pull waits for its fence the worker that ran it is free:
\* with a single worker, a task that is ready can be started before the fence
\* is signalled.
C24_WorkerFreeDuringFenceWait ==
    (/\ Len(rxWorkers) = 1
     /\ gpuPc = "wait"
     /\ ReadyTasks(rxTasks) # {})
    => \E w \in Workers : ENABLED RxDequeue(w)

(***************************************************************************)
(* Display (gpu/display.rs): a sink that hands frames to a render thread   *)
(* over a bounded channel.  A frame is named by its place among the frames  *)
(* whose calls took the sender; a message is Some(frame) or the sentinel    *)
(* None.                                                                    *)
(***************************************************************************)

\* sync_channel(10), line 133
ChannelCapacity == 10

\* how many frames are handed to process
MaxFrames == 12

\* how many process calls can be in flight at once
MaxProducers == 2

Producers == 1 .. MaxProducers

\* an RgbFrame payload and a payload of another type, as process receives them
RgbFramePayload == [type |-> "RgbFrame"]

OtherPayload == [type |-> "()"]

\* Payload::empty()
EmptyPayload == [type |-> "()"]

\* Ok(Some(Payload::empty())), lines 354, 362 and 364
Accepted == [kind |-> "Ok", value |-> Some(EmptyPayload)]

\* Ok(None), lines 355 and 365
NoMoreWork == [kind |-> "Ok", value |-> None]

\* the error of line 351
WrongInputFormat == [kind |-> "Err", error |-> "Wrong input format"]

\* rx lives in the closure of the render thread (line 250): the channel is
\* connected until run_return has returned or the thread has panicked
Connected == dsRender.state \in {"starting", "running"}

\* a try_send into a channel without a bound
try_send_unbounded(channel, connected, message) ==
    IF ~connected THEN [channel |-> channel, result |-> "Disconnected"]
    ELSE [channel |-> Append(channel, message), result |-> "Ok"]

\* a try_send that makes room by discarding the oldest message
try_send_evicting(channel, connected, message) ==
    IF ~connected THEN [channel |-> channel, result |-> "Disconnected"]
    ELSE IF Len(channel) >= ChannelCapacity
         THEN [channel |-> Append(Tail(channel), message), result |-> "Ok"]
    ELSE [channel |-> Append(channel, message), result |-> "Ok"]

\* SyncSender::try_send as line 361 calls it: the channel after the call and
\* Ok, Full or Disconnected
try_send(channel, connected, message) ==
    IF ~connected THEN [channel |-> channel, result |-> "Disconnected"]
    ELSE IF Len(channel) >= ChannelCapacity
         THEN [channel |-> channel, result |-> "Full"]
    ELSE [channel |-> Append(channel, message), result |-> "Ok"]

\* a send that returns whatever the channel holds
CanSend_anytime(channel, connected) == TRUE

\* SyncSender::send as lines 353 and 372 call it, once it can return: there is
\* room for the message or the receiver is gone
CanSend(channel, connected) == ~connected \/ Len(channel) < ChannelCapacity

\* a send that puts its message in front of the messages queued
send_front(channel, connected, message) ==
    IF ~connected THEN [channel |-> channel, result |-> "Err"]
    ELSE [channel |-> <<message>> \o channel, result |-> "Ok"]

\* a send that does not notice that the receiver is gone
send_unchecked(channel, connected, message) ==
    [channel |-> Append(channel, message), result |-> "Ok"]

send(channel, connected, message) ==
    IF ~connected THEN [channel |-> channel, result |-> "Err"]
    ELSE [channel |-> Append(channel, message), result |-> "Ok"]

\* a receive that takes the newest message and discards the older ones
try_recv_latest(channel) ==
    IF channel = <<>> THEN [ok |-> FALSE, channel |-> channel]
    ELSE [ok |-> TRUE, message |-> channel[Len(channel)], channel |-> <<>>]

\* Receiver::try_recv as line 250 calls it: the oldest message if there is
\* one, and the channel without it
try_recv(channel) ==
    IF channel = <<>> THEN [ok |-> FALSE, channel |-> channel]
    ELSE [ok |-> TRUE, message |-> Head(channel), channel |-> Tail(channel)]

\* a producer that is in no call
ProcessIdle == [pc |-> "idle", frame |-> 0]

\* the record of a call that returned: its result, and whether it put its
\* frame into the channel
Returned(result, enqueued) == [result |-> result, enqueued |-> enqueued]

\* Display::from_parameters (lines 129-342): the channel is empty, the render
\* thread is spawned and still sets up its window and swapchain
InitDisplay ==
    /\ dsBlocking \in BOOLEAN
    /\ dsChannel = <<>>
    /\ dsRender = [state |-> "starting", shown |-> 0]
    /\ dsProcess = [p \in Producers |-> ProcessIdle]
    /\ dsReturned = [result |-> [kind |-> "pending"]]
    /\ dsLock = 0
    /\ dsFrames = 0
    /\ dsDrop = "alive"
    /\ PriorityIdle
    /\ ConvertIdle
    /\ GpuIdle
    /\ ReaderIdle
    /\ ResidencyIdle
    /\ ReactorIdle
    /\ DispatchIdle

\* the process calls that wait for the mutex around tx
Locking == {p \in Producers : dsProcess[p].pc = "locking"}

\* Display::process up to the lock (lines 350-353, 358-359), after
\* frame_lock.wait() has returned: the downcast, then the call waits for the
\* mutex around tx.  Calls in flight take the producers in number order.
DsProcess(p) ==
    /\ dsDrop = "alive"
    /\ dsFrames + Cardinality(Locking) < MaxFrames
    /\ dsProcess[p].pc = "idle"
    /\ \A q \in Producers : q < p => dsProcess[q].pc # "idle"
    /\ \E input \in {RgbFramePayload, OtherPayload} :
        IF downcast(input, "RgbFrame").ok
        THEN /\ dsProcess' = [dsProcess EXCEPT ![p] = [pc |-> "locking", frame |-> 0]]
             /\ UNCHANGED dsReturned
        ELSE /\ dsReturned' = Returned(WrongInputFormat, FALSE)
             /\ UNCHANGED dsProcess
    /\ UNCHANGED <<dsBlocking, dsChannel, dsRender, dsLock, dsFrames, dsDrop, notDisplayVars>>

\* self.tx.lock().unwrap() (lines 353 and 358-360): the call has the sender,
\* and its frame is the next one to be sent
DsLockTx(p) ==
    /\ dsProcess[p].pc = "locking"
    /\ dsLock = 0
    /\ dsLock' = p
    /\ dsFrames' = dsFrames + 1
    /\ dsProcess' = [dsProcess EXCEPT ![p] = [pc |-> "locked", frame |-> dsFrames + 1]]
    /\ UNCHANGED <<dsBlocking, dsChannel, dsRender, dsReturned, dsDrop, notDisplayVars>>

\* the blocking branch (lines 352-356): send returns when there is room or the
\* receiver is gone; the guard on the mutex is dropped at the end of the match
DsSend(p) ==
    /\ dsBlocking
    /\ dsProcess[p].pc = "locked"
    /\ CanSend(dsChannel, Connected)
    /\ LET sent == send(dsChannel, Connected, Some(dsProcess[p].frame)) IN
        /\ dsChannel' = sent.channel
        /\ dsReturned' =
                IF sent.result = "Ok" THEN Returned(Accepted, TRUE)
                ELSE Returned(NoMoreWork, FALSE)
    /\ dsProcess' = [dsProcess EXCEPT ![p] = ProcessIdle]
    /\ dsLock' = 0
    /\ UNCHANGED <<dsBlocking, dsRender, dsFrames, dsDrop, notDisplayVars>>

\* the non-blocking branch (lines 357-367)
DsTrySend(p) ==
    /\ ~dsBlocking
    /\ dsProcess[p].pc = "locked"
    /\ LET sent == try_send(dsChannel, Connected, Some(dsProcess[p].frame)) IN
        /\ dsChannel' = sent.channel
        /\ dsReturned' =
                CASE sent.result = "Ok" -> Returned(Accepted, TRUE)
                  [] sent.result = "Full" -> Returned(Accepted, FALSE)
                  [] sent.result = "Disconnected" -> Returned(NoMoreWork, FALSE)
    /\ dsProcess' = [dsProcess EXCEPT ![p] = ProcessIdle]
    /\ dsLock' = 0
    /\ UNCHANGED <<dsBlocking, dsRender, dsFrames, dsDrop, notDisplayVars>>

\* the render thread before run_return (lines 138-209): the window, the
\* swapchain and the pipeline are built, and each unwrap or expect can panic
DsRenderSetup(ok) ==
    /\ dsRender.state = "starting"
    /\ IF ok
       THEN /\ dsRender' = [dsRender EXCEPT !.state = "running"]
            /\ UNCHANGED dsChannel
       ELSE /\ dsRender' = [dsRender EXCEPT !.state = "panicked"]
            /\ dsChannel' = <<>>
    /\ UNCHANGED <<dsBlocking, dsProcess, dsReturned, dsLock, dsFrames, dsDrop,
                   notDisplayVars>>

\* WindowEvent::CloseRequested (lines 211-213): run_return returns, the closure
\* and rx with it are dropped and the messages still queued are discarded
DsCloseRequested ==
    /\ dsRender.state = "running"
    /\ dsRender' = [dsRender EXCEPT !.state = "closed"]
    /\ dsChannel' = <<>>
    /\ UNCHANGED <<dsBlocking, dsProcess, dsReturned, dsLock, dsFrames, dsDrop,
                   notDisplayVars>>

\* what one redraw comes to: "panicked" when the recreation of the swapchain,
\* the acquisition of the image or a later unwrap panics, "presented" when
\* the handler reaches rx.try_recv().  A redraw that returns before it
\* (lines 224 and 239-242) and a resize (lines 214-216) change
\* recreate_swapchain only, which no step here reads: they are stuttering.
RedrawOutcomes == {"presented", "panicked"}

\* Event::RedrawEventsCleared (lines 217-332)
DsRedraw(outcome) ==
    /\ dsRender.state = "running"
    /\ CASE outcome = "panicked" ->
                /\ dsRender' = [dsRender EXCEPT !.state = "panicked"]
                /\ dsChannel' = <<>>
         [] outcome = "presented" ->
                LET frame == try_recv(dsChannel) IN
                IF ~frame.ok
                THEN \* Err(_), line 252
                     UNCHANGED <<dsRender, dsChannel>>
                ELSE IF frame.message = None
                THEN \* Ok(None), line 253
                     /\ dsRender' = [dsRender EXCEPT !.state = "exited"]
                     /\ dsChannel' = <<>>
                ELSE \* Ok(Some(frame)), lines 254-263
                     /\ dsRender' = [dsRender EXCEPT !.shown = frame.message.value]
                     /\ dsChannel' = frame.channel
    /\ UNCHANGED <<dsBlocking, dsProcess, dsReturned, dsLock, dsFrames, dsDrop,
                   notDisplayVars>>

\* Drop for Display begins (line 371): drop has the Display to itself, so no
\* process call is in flight
DsDrop ==
    /\ dsDrop = "alive"
    /\ \A p \in Producers : dsProcess[p].pc = "idle"
    /\ dsDrop' = "posting"
    /\ UNCHANGED <<dsBlocking, dsChannel, dsRender, dsProcess, dsReturned, dsLock,
                   dsFrames, notDisplayVars>>

\* self.tx.lock().unwrap().send(None).unwrap() (line 372)
DsDropSend ==
    /\ dsDrop = "posting"
    /\ CanSend(dsChannel, Connected)
    /\ LET sent == send(dsChannel, Connected, None) IN
        /\ dsChannel' = sent.channel
        /\ dsDrop' = IF sent.result = "Ok" THEN "joining" ELSE "panicked"
    /\ UNCHANGED <<dsBlocking, dsRender, dsProcess, dsReturned, dsLock, dsFrames,
                   notDisplayVars>>

\* self.join_handle.take().unwrap().join().unwrap() (line 373)
DsDropJoin ==
    /\ dsDrop = "joining"
    /\ dsRender.state \in {"exited", "closed", "panicked"}
    /\ dsDrop' = IF dsRender.state = "panicked" THEN "panicked" ELSE "dropped"
    /\ UNCHANGED <<dsBlocking, dsChannel, dsRender, dsProcess, dsReturned, dsLock,
                   dsFrames, notDisplayVars>>

NextDisplay ==
    \/ \E p \in Producers : DsProcess(p)
    \/ \E p \in Producers : DsLockTx(p)
    \/ \E p \in Producers : DsSend(p)
    \/ \E p \in Producers : DsTrySend(p)
    \/ \E ok \in BOOLEAN : DsRenderSetup(ok)
    \/ DsCloseRequested
    \/ \E outcome \in RedrawOutcomes : DsRedraw(outcome)
    \/ DsDrop
    \/ DsDropSend
    \/ DsDropJoin

SpecDisplay == InitDisplay /\ [][NextDisplay]_vars

\* Every thread that can take a step takes one in the end: the callers of
\* process and of drop are threads of their own, the render thread finishes
\* its set-up, and its event loop polls (winit's default control flow), so
\* RedrawEventsCleared keeps coming.  Nothing is assumed about window events.
DisplayFairness ==
    /\ \A p \in Producers :
        /\ WF_vars(DsLockTx(p))
        /\ WF_vars(DsSend(p))
        /\ WF_vars(DsTrySend(p))
    /\ WF_vars(\E ok \in BOOLEAN : DsRenderSetup(ok))
    /\ WF_vars(DsRedraw("presented"))
    /\ WF_vars(DsDropSend)
    /\ WF_vars(DsDropJoin)

SpecDisplayLive == InitDisplay /\ [][NextDisplay]_vars /\ DisplayFairness

\* C20: in non-blocking mode a process call that holds the sender can always
\* take its try_send step, and when that step finds ChannelCapacity messages
\* queued the call returns the accepted result, an empty payload, and the
\* queue after the step is the queue before it: the new frame is not in it.
C20_FullChannelDropsNewFrame ==
    /\ [](\A p \in Producers :
            (~dsBlocking /\ dsProcess[p].pc = "locked") => ENABLED DsTrySend(p))
    /\ [][\A p \in Producers :
            (/\ ~dsBlocking
             /\ dsProcess[p].pc = "locked"
             /\ dsProcess'[p].pc = "idle"
             /\ Connected
             /\ Len(dsChannel) = ChannelCapacity)
            => /\ dsReturned'.result = Accepted
               /\ dsChannel' = dsChannel
               /\ \A i \in 1 .. Len(dsChannel') :
                    dsChannel'[i] # Some(dsProcess[p].frame)]_vars

\* the eleventh frame was handed to a non-blocking Display, its call has
\* returned accepted without enqueuing, and the messages queued are the ten
\* frames sent before it
C20_Witness ==
    /\ ~dsBlocking
    /\ Connected
    /\ dsFrames = ChannelCapacity + 1
    /\ \A p \in Producers : dsProcess[p].pc = "idle"
    /\ dsReturned = Returned(Accepted, FALSE)
    /\ dsChannel = [i \in 1 .. ChannelCapacity |-> Some(i)]

\* the frames queued, oldest first, without the sentinel
QueuedFrames == [i \in {j \in DOMAIN dsChannel : dsChannel[j] # None} |-> dsChannel[i].value]

\* C21: in blocking mode a process call returns from send only when the
\* channel had room or the receiver was gone; a call that returns accepted has
\* put its frame at the end of the queue; and the render thread receives the
\* frames in the order in which they were sent: the queue is in sending order
\* and the frame shown was sent before every frame queued.
C21_BlockingWaitsAndKeepsOrder ==
    /\ [](dsBlocking =>
            /\ \A i, j \in DOMAIN QueuedFrames :
                    i < j => QueuedFrames[i] < QueuedFrames[j]
            /\ \A i \in DOMAIN QueuedFrames : dsRender.shown < QueuedFrames[i])
    /\ [][\A p \in Producers :
            (/\ dsBlocking
             /\ dsProcess[p].pc = "locked"
             /\ dsProcess'[p].pc = "idle")
            => /\ Len(dsChannel) < ChannelCapacity \/ ~Connected
               /\ dsReturned'.result = Accepted =>
                    dsChannel' = Append(dsChannel, Some(dsProcess[p].frame))
               /\ Len(dsChannel') <= ChannelCapacity]_vars

\* ten frames filled the channel, the render thread has taken the first, and
\* the call for the eleventh has returned accepted with its frame queued last
C21_Witness ==
    /\ dsBlocking
    /\ dsRender.state = "running"
    /\ dsRender.shown = 1
    /\ dsFrames = ChannelCapacity + 1
    /\ dsReturned = Returned(Accepted, TRUE)
    /\ dsChannel = [i \in 1 .. ChannelCapacity |-> Some(i + 1)]

\* C22: once the render thread is gone, by a close request, the sentinel or a
\* panic, every process call that hands a frame to the sender returns
\* Ok(None) and leaves the channel alone, in either mode, and every call in
\* flight returns in the end: the one blocked in send on a full channel and
\* the one that waits for the mutex behind it.
C22_NoMoreWorkAfterExit ==
    /\ [][\A p \in Producers :
            (/\ ~Connected
             /\ dsProcess[p].pc = "locked"
             /\ dsProcess'[p].pc = "idle")
            => /\ dsReturned' = Returned(NoMoreWork, FALSE)
               /\ dsChannel' = dsChannel]_vars
    /\ \A p \in Producers :
            (~Connected /\ dsProcess[p].pc # "idle") ~> (dsProcess[p].pc = "idle")

\* ten frames filled the channel of a blocking Display and none was taken,
\* the window was closed, and the call for the eleventh frame has returned
\* Ok(None)
C22_Witness ==
    /\ dsBlocking
    /\ dsRender = [state |-> "closed", shown |-> 0]
    /\ dsFrames = ChannelCapacity + 1
    /\ \A p \in Producers : dsProcess[p].pc = "idle"
    /\ dsReturned = Returned(NoMoreWork, FALSE)
    /\ dsChannel = <<>>

\* C27: the channel never holds more than ChannelCapacity messages, the
\* sentinel included, whatever the mode and however many calls are in flight.
C27_ChannelBounded == Len(dsChannel) <= ChannelCapacity

\* the channel is full: nine frames and the sentinel behind them
C27_Witness ==
    /\ Connected
    /\ Len(dsChannel) = ChannelCapacity
    /\ dsChannel[ChannelCapacity] = None
    /\ dsDrop = "joining"

\* C28: when the Display is dropped while the render thread runs, the sentinel
\* is queued behind every frame accepted before, and nothing is queued behind
\* it; the render thread takes the messages from the head, one at a redraw,
\* showing each frame, and leaves its loop on the sentinel; then drop returns.
\* This happens in the end as long as redraws keep coming, that is unless the
\* window is closed or the render thread panics.
C28_DropHandshake ==
    /\ [](\A i \in DOMAIN dsChannel : dsChannel[i] = None => i = Len(dsChannel))
    /\ [][(dsDrop = "posting" /\ dsDrop' = "joining")
            => dsChannel' = Append(dsChannel, None)]_vars
    /\ [][(/\ dsDrop = "joining"
           /\ dsRender.state = "running"
           /\ dsRender'.state \in {"running", "exited"}
           /\ dsChannel' # dsChannel)
            => /\ dsChannel' = Tail(dsChannel)
               /\ IF Head(dsChannel) = None
                  THEN dsRender'.state = "exited" /\ dsRender'.shown = dsRender.shown
                  ELSE dsRender'.state = "running"
                       /\ dsRender'.shown = Head(dsChannel).value]_vars
    /\ [](dsDrop = "dropped" => dsRender.state \in {"exited", "closed"})
    /\ (dsDrop = "posting" /\ dsRender.state = "running")
            ~> \/ dsDrop = "dropped" /\ dsRender.state = "exited"
               \/ dsRender.state \in {"closed", "panicked"}

\* three frames were accepted, the render thread has shown them in turn and
\* has left its loop on the sentinel, and drop has returned
C28_Witness ==
    /\ dsBlocking
    /\ dsFrames = 3
    /\ dsReturned = Returned(Accepted, TRUE)
    /\ dsRender = [state |-> "exited", shown |-> 3]
    /\ dsChannel = <<>>
    /\ dsDrop = "dropped"

\* C29: drop completes normally whatever the state of the render thread, also
\* after a close request has ended it: unless the render thread itself has
\* panicked, drop does not panic.
C29_DropNeverPanics == dsRender.state # "panicked" => dsDrop # "panicked"

\* a redraw of the running render thread has taken a frame from the channel
RedrawTookFrame ==
    /\ dsRender.state = "running"
    /\ dsRender'.state = "running"
    /\ Len(dsChannel') < Len(dsChannel)

\* C30 as stated: when several frames are queued, the frame shown after the
\* redraw is the most recently sent one.
C30_RedrawShowsLatest ==
    [][(RedrawTookFrame /\ Len(QueuedFrames) >= 2)
        => dsRender'.shown = dsChannel[Len(QueuedFrames)].value]_vars

\* C30 as amended: a redraw never waits for the channel, and when frames are
\* queued the frame shown after the redraw is the one sent first of them; the
\* frames sent after it stay queued in their order.
C30_RedrawShowsOldest ==
    /\ [](dsRender.state = "running" => ENABLED DsRedraw("presented"))
    /\ [][RedrawTookFrame
            => /\ dsRender'.shown = Head(dsChannel).value
               /\ dsChannel' = Tail(dsChannel)]_vars

\* frames 1, 2 and 3 were sent; the render thread shows frame 1 and the other
\* two are still queued
C30_Witness ==
    /\ dsRender = [state |-> "running", shown |-> 1]
    /\ dsFrames = 3
    /\ \A p \in Producers : dsProcess[p].pc = "idle"
    /\ dsChannel = <<Some(2), Some(3)>>

====
